---- MODULE Spec2Model ----
(***************************************************************************)
(* A model of the Expression library (include/Expression.hpp): the          *)
(* expression tree (ConstNode, VarNode, BinaryOpNode, FunctionNode), the    *)
(* simplifying constructors del_zero / del_mult / del_div / del_pow, eval,  *)
(* to_string, diff and the infix parser make_expression.                    *)
(*                                                                          *)
(* Numeric domain.  T = Real = long double.  A value is                     *)
(*    <<"q", n, d>>   the number n/d in lowest terms, d > 0, n # 0;         *)
(*                    <<"q",0,1>> is +0 and <<"q",0,-1>> is -0;             *)
(*                    <<"q",1,0>> is +inf, <<"q",-1,0>> is -inf;            *)
(*                    <<"q",0,0>> is NaN;                                   *)
(*    <<"t", op, a, b>>  the result of an operation whose value is not a    *)
(*                    rational number (sin 2, 2^(1/2)): kept as the term.   *)
(* The arithmetic is IEEE-754 arithmetic with the rounding left out: the    *)
(* operations are exact on rationals, and keep signed zeros, infinities     *)
(* and NaN as the hardware does.                                            *)
(***************************************************************************)
EXTENDS Integers, Sequences, FiniteSets, TLC

VARIABLES pc, text, expr, other, count, src, dvar, bindings, val, str, call, regs

vars == <<pc, text, expr, other, count, src, dvar, bindings, val, str, call, regs>>

----------------------------------------------------------------------------
(* Bounds of the model *)

\* longest input text of the parser session, in tokens
MaxLen == 5
\* most combinator applications of a builder session
MaxOps == 2
\* largest numerator and denominator the arithmetic computes with; the
\* result of an operation on a larger number is kept as a term
MaxExact == 10000
\* the most tokens of a text of RawTexts
RawLen == 3
\* the most statements of a session on Expression objects
MaxOwned == 3

----------------------------------------------------------------------------
(* long double *)

Abs(n) == IF n < 0 THEN -n ELSE n

RECURSIVE GCD(_, _)
GCD(a, b) == IF b = 0 THEN a ELSE GCD(b, a % b)

NaN == <<"q", 0, 0>>
PosZero == <<"q", 0, 1>>
NegZero == <<"q", 0, -1>>
PosInf == <<"q", 1, 0>>
NegInf == <<"q", -1, 0>>

\* the long double of an integer literal of the source (0, 1, 2, -1)
Num(n) == IF n = 0 THEN PosZero ELSE <<"q", n, 1>>

IsTerm(v) == v[1] = "t"
IsNaN(v) == v = NaN
IsInf(v) == v = PosInf \/ v = NegInf
IsZeroVal(v) == v = PosZero \/ v = NegZero
IsFinite(v) == v[1] = "q" /\ v[3] > 0
\* the sign bit: TRUE for negative values and for -0
Negative(v) == v[1] = "q" /\ (IF v[2] = 0 THEN v[3] < 0 ELSE v[2] < 0)

Zero(neg) == IF neg THEN NegZero ELSE PosZero
Inf(neg) == IF neg THEN NegInf ELSE PosInf

\* n/d in lowest terms, for n # 0 and d # 0
Ratio(n, d) ==
    LET g == GCD(Abs(n), Abs(d))
        s == IF (n < 0) # (d < 0) THEN -1 ELSE 1
    IN  <<"q", s * (Abs(n) \div g), Abs(d) \div g>>

Term(op, a, b) == <<"t", op, a, b>>

\* a value the arithmetic does not compute with
Opaque(v) == IsTerm(v) \/ (IsFinite(v) /\ (Abs(v[2]) > MaxExact \/ v[3] > MaxExact))

\* operator== of long double: NaN equals nothing, -0 equals +0
NumEq(a, b) ==
    /\ ~IsNaN(a)
    /\ ~IsNaN(b)
    /\ (a = b \/ (IsZeroVal(a) /\ IsZeroVal(b)))

NegVal(v) ==
    IF IsTerm(v) THEN Term("*", Num(-1), v)
    ELSE IF IsNaN(v) THEN NaN
    ELSE IF v[2] = 0 THEN <<"q", 0, -v[3]>>
    ELSE <<"q", -v[2], v[3]>>

AddVal(a, b) ==
    IF IsNaN(a) \/ IsNaN(b) THEN NaN
    ELSE IF Opaque(a) \/ Opaque(b) THEN
        (IF IsZeroVal(a) THEN b ELSE IF IsZeroVal(b) THEN a ELSE Term("+", a, b))
    ELSE IF IsInf(a) THEN (IF IsInf(b) /\ a # b THEN NaN ELSE a)
    ELSE IF IsInf(b) THEN b
    ELSE IF IsZeroVal(a) /\ IsZeroVal(b) THEN Zero(Negative(a) /\ Negative(b))
    ELSE IF IsZeroVal(a) THEN b
    ELSE IF IsZeroVal(b) THEN a
    ELSE LET n == a[2] * b[3] + b[2] * a[3]
         IN  IF n = 0 THEN PosZero ELSE Ratio(n, a[3] * b[3])

SubVal(a, b) == AddVal(a, NegVal(b))

MulVal(a, b) ==
    IF IsNaN(a) \/ IsNaN(b) THEN NaN
    ELSE IF Opaque(a) \/ Opaque(b) THEN
        (IF IsZeroVal(a) \/ IsZeroVal(b) THEN PosZero
         ELSE IF a = Num(1) THEN b
         ELSE IF b = Num(1) THEN a
         ELSE Term("*", a, b))
    ELSE LET neg == Negative(a) # Negative(b)
         IN  IF IsInf(a) \/ IsInf(b)
             THEN (IF IsZeroVal(a) \/ IsZeroVal(b) THEN NaN ELSE Inf(neg))
             ELSE IF IsZeroVal(a) \/ IsZeroVal(b) THEN Zero(neg)
             ELSE Ratio(a[2] * b[2], a[3] * b[3])

DivVal(a, b) ==
    IF IsNaN(a) \/ IsNaN(b) THEN NaN
    ELSE IF Opaque(a) \/ Opaque(b) THEN
        (IF b = Num(1) THEN a
         ELSE IF IsZeroVal(a) THEN PosZero
         ELSE Term("/", a, b))
    ELSE LET neg == Negative(a) # Negative(b)
         IN  IF IsInf(a) THEN (IF IsInf(b) THEN NaN ELSE Inf(neg))
             ELSE IF IsInf(b) THEN Zero(neg)
             ELSE IF IsZeroVal(b) THEN (IF IsZeroVal(a) THEN NaN ELSE Inf(neg))
             ELSE IF IsZeroVal(a) THEN Zero(neg)
             ELSE Ratio(a[2] * b[3], a[3] * b[2])

RECURSIVE IntPow(_, _)
IntPow(n, k) == IF k = 0 THEN 1 ELSE n * IntPow(n, k - 1)

RECURSIVE PowUpTo(_, _, _)
\* n^k for n >= 2, or a number above MaxExact when n^k is above it
PowUpTo(n, k, acc) == IF k = 0 \/ acc > MaxExact THEN acc ELSE PowUpTo(n, k - 1, acc * n)

\* (p/q)^k for an integer k > 0 and p/q other than 0 and 1
RatioPow(p, q, k) ==
    LET np == IF Abs(p) = 1 THEN 1 ELSE PowUpTo(Abs(p), k, 1)
        nq == IF q = 1 THEN 1 ELSE PowUpTo(q, k, 1)
        s == IF p < 0 /\ k % 2 = 1 THEN -1 ELSE 1
    IN  IF np > MaxExact \/ nq > MaxExact THEN Term("^", <<"q", p, q>>, <<"q", k, 1>>)
        ELSE <<"q", s * np, nq>>

IsInteger(v) == IsFinite(v) /\ v[3] = 1
IsOddInteger(v) == IsInteger(v) /\ v[2] % 2 = 1

\* |a| compared with 1, for a finite a: -1, 0 or 1
AbsCmpOne(a) ==
    IF Abs(a[2]) < a[3] THEN -1 ELSE IF Abs(a[2]) = a[3] THEN 0 ELSE 1

\* std::pow(a, b) of <cmath>
PowVal(a, b) ==
    IF IsZeroVal(b) THEN Num(1)
    ELSE IF a = Num(1) THEN Num(1)
    ELSE IF IsNaN(a) \/ IsNaN(b) THEN NaN
    ELSE IF Opaque(a) \/ Opaque(b) THEN
        (IF b = Num(1) THEN a ELSE Term("^", a, b))
    ELSE IF IsInf(b) THEN
        (IF IsZeroVal(a) THEN (IF Negative(b) THEN PosInf ELSE PosZero)
         ELSE IF IsInf(a) THEN (IF Negative(b) THEN PosZero ELSE PosInf)
         ELSE IF AbsCmpOne(a) = 0 THEN Num(1)
         ELSE IF (AbsCmpOne(a) < 0) = Negative(b) THEN PosInf ELSE PosZero)
    ELSE IF IsZeroVal(a) THEN
        (IF Negative(b) THEN Inf(Negative(a) /\ IsOddInteger(b))
         ELSE Zero(Negative(a) /\ IsOddInteger(b)))
    ELSE IF IsInf(a) THEN
        (IF Negative(b) THEN Zero(Negative(a) /\ IsOddInteger(b))
         ELSE Inf(Negative(a) /\ IsOddInteger(b)))
    ELSE IF IsInteger(b) THEN
        (IF b[2] > 0
         THEN RatioPow(a[2], a[3], b[2])
         ELSE LET p == RatioPow(a[2], a[3], -b[2])
              IN  IF IsTerm(p) THEN Term("^", a, b) ELSE Ratio(p[3], p[2]))
    ELSE IF Negative(a) THEN NaN
    ELSE Term("^", a, b)

\* std::sin, std::cos, std::exp, std::log of <cmath>
SinVal(v) ==
    IF IsNaN(v) \/ IsInf(v) THEN NaN
    ELSE IF IsZeroVal(v) THEN v
    ELSE Term("sin", v, v)

CosVal(v) ==
    IF IsNaN(v) \/ IsInf(v) THEN NaN
    ELSE IF IsZeroVal(v) THEN Num(1)
    ELSE Term("cos", v, v)

ExpVal(v) ==
    IF IsNaN(v) THEN NaN
    ELSE IF v = PosInf THEN PosInf
    ELSE IF v = NegInf THEN PosZero
    ELSE IF IsZeroVal(v) THEN Num(1)
    ELSE Term("exp", v, v)

LogVal(v) ==
    IF IsNaN(v) THEN NaN
    ELSE IF IsZeroVal(v) THEN NegInf
    ELSE IF IsTerm(v) THEN Term("ln", v, v)
    ELSE IF Negative(v) THEN NaN
    ELSE IF v = PosInf THEN PosInf
    ELSE IF v = Num(1) THEN PosZero
    ELSE Term("ln", v, v)

----------------------------------------------------------------------------
(* Characters and strings.  A std::string is a sequence of one-character    *)
(* strings.                                                                 *)

DigitChars == <<"0", "1", "2", "3", "4", "5", "6", "7", "8", "9">>

RECURSIVE Digits(_)
\* the decimal digits of a natural number
Digits(n) ==
    IF n < 10 THEN <<DigitChars[n + 1]>>
    ELSE Digits(n \div 10) \o <<DigitChars[(n % 10) + 1]>>

RECURSIVE ZeroPad(_, _)
ZeroPad(ds, width) == IF Len(ds) >= width THEN ds ELSE ZeroPad(<<"0">> \o ds, width)

RECURSIVE Decimals(_, _, _, _)
\* long division of r/den (r < den) to k more decimals after those in acc:
\* <<the decimals as a number, the remainder>>
Decimals(r, den, k, acc) ==
    IF k = 0 THEN <<acc, r>>
    ELSE Decimals((r * 10) % den, den, k - 1, acc * 10 + ((r * 10) \div den))

\* std::to_string(long double): printf("%Lf"), six decimals, ties to even.
\* A value that is no rational number has no digits here: it prints as "?".
to_string_val(v) ==
    IF IsTerm(v) THEN <<"?">>
    ELSE IF IsNaN(v) THEN <<"n", "a", "n">>
    ELSE IF IsInf(v) THEN (IF Negative(v) THEN <<"-">> ELSE <<>>) \o <<"i", "n", "f">>
    ELSE LET den == Abs(v[3])
             f == Decimals(Abs(v[2]) % den, den, 6, 0)
             up == 2 * f[2] > den \/ (2 * f[2] = den /\ f[1] % 2 = 1)
             frac == IF up THEN f[1] + 1 ELSE f[1]
             whole == (Abs(v[2]) \div den) + (IF frac = 1000000 THEN 1 ELSE 0)
         IN  (IF Negative(v) THEN <<"-">> ELSE <<>>)
                 \o Digits(whole) \o <<".">> \o ZeroPad(Digits(frac % 1000000), 6)

----------------------------------------------------------------------------
(* The tree.  A node is <<"Constant", v>>, <<"Variable", name>>,            *)
(* <<op, left, right>> for a BinaryOpNode or <<fn, arg>> for a FunctionNode; *)
(* its first element is the node's ExprType.                                *)

BinaryTypes == {"Add", "Subtract", "Multiply", "Divide", "Power"}
FunctionTypes == {"Sin", "Cos", "Ln", "Exp"}

ExprTypeToString(type) ==
    CASE type = "Constant" -> <<"C", "o", "n", "s", "t">>
      [] type = "Variable" -> <<"V", "a", "r">>
      [] type = "Add" -> <<"+">>
      [] type = "Subtract" -> <<"-">>
      [] type = "Multiply" -> <<"*">>
      [] type = "Divide" -> <<"/">>
      [] type = "Power" -> <<"^">>
      [] type = "Negate" -> <<"-">>
      [] type = "Sin" -> <<"s", "i", "n">>
      [] type = "Cos" -> <<"c", "o", "s">>
      [] type = "Ln" -> <<"l", "n">>
      [] type = "Exp" -> <<"e", "x", "p">>
      [] OTHER -> <<"U", "n", "k", "n", "o", "w", "n">>

ConstNode(v) == <<"Constant", v>>
VarNode(name) == <<"Variable", name>>
BinaryOpNode(op, l, r) == <<op, l, r>>
FunctionNode(type, arg) == <<type, arg>>

getType(node) == node[1]
IsBinary(node) == getType(node) \in BinaryTypes
IsFunction(node) == getType(node) \in FunctionTypes

\* a thrown std::runtime_error
Throw(what, arg) == <<"throw", what, arg>>
IsThrow(r) == r[1] = "throw"

\* vars.find(var) == vars.end()
Bound(vars_, name) == name \in DOMAIN vars_

\* VarNode<T>::eval as it would be with an implicit zero for an absent name
VarNode_eval_AbsentIsZero(name, vars_) ==
    IF ~Bound(vars_, name) THEN Num(0) ELSE vars_[name]

\* VarNode<T>::eval
VarNode_eval(name, vars_) ==
    IF ~Bound(vars_, name)
    THEN Throw("is not provided", name)
    ELSE vars_[name]

\* the switch of BinaryOpNode<T>::eval
BinaryOpNode_apply(type, left_val, right_val) ==
    CASE type = "Add" -> AddVal(left_val, right_val)
      [] type = "Subtract" -> SubVal(left_val, right_val)
      [] type = "Multiply" -> MulVal(left_val, right_val)
      [] type = "Divide" -> DivVal(left_val, right_val)
      [] type = "Power" -> PowVal(left_val, right_val)

\* the switch of FunctionNode<T>::eval
FunctionNode_apply(type, arg_val) ==
    CASE type = "Sin" -> SinVal(arg_val)
      [] type = "Cos" -> CosVal(arg_val)
      [] type = "Exp" -> ExpVal(arg_val)
      [] type = "Ln" -> LogVal(arg_val)

RECURSIVE eval(_, _)
\* Node<T>::eval: the value, or the exception thrown.  A BinaryOpNode
\* evaluates its left child, then its right child, and an exception of a
\* child ends the call.
eval(node, vars_) ==
    CASE getType(node) = "Constant" -> node[2]
      [] getType(node) = "Variable" -> VarNode_eval(node[2], vars_)
      [] IsBinary(node) ->
            LET left_val == eval(node[2], vars_)
            IN  IF IsThrow(left_val) THEN left_val
                ELSE LET right_val == eval(node[3], vars_)
                     IN  IF IsThrow(right_val) THEN right_val
                         ELSE BinaryOpNode_apply(getType(node), left_val, right_val)
      [] IsFunction(node) ->
            LET arg_val == eval(node[2], vars_)
            IN  IF IsThrow(arg_val) THEN arg_val
                ELSE FunctionNode_apply(getType(node), arg_val)

RECURSIVE to_string(_)
\* Node<T>::to_string
to_string(node) ==
    CASE getType(node) = "Constant" -> to_string_val(node[2])
      [] getType(node) = "Variable" -> node[2]
      [] IsBinary(node) ->
            <<"(">> \o to_string(node[2]) \o ExprTypeToString(getType(node))
                \o to_string(node[3]) \o <<")">>
      [] IsFunction(node) ->
            ExprTypeToString(getType(node)) \o <<"(">> \o to_string(node[2]) \o <<")">>

\* Node<T>::clone: a deep copy, which as a value is the same tree
clone(node) == node

is_one(node) == getType(node) = "Constant" /\ NumEq(node[2], Num(1))
is_zero(node) == getType(node) = "Constant" /\ NumEq(node[2], Num(0))

make(op, l, r) == BinaryOpNode(op, l, r)

BothConstant(l, r) == getType(l) = "Constant" /\ getType(r) = "Constant"

\* del_mult without its two is_one rules
del_mult_KeepsOne(type, l, r) ==
    IF is_zero(l) \/ is_zero(r) THEN ConstNode(Num(0))
    ELSE IF BothConstant(l, r) THEN ConstNode(MulVal(l[2], r[2]))
    ELSE make(type, l, r)

\* del_mult without its is_zero rule
del_mult_KeepsZero(type, l, r) ==
    IF is_one(l) THEN r
    ELSE IF is_one(r) THEN l
    ELSE IF BothConstant(l, r) THEN ConstNode(MulVal(l[2], r[2]))
    ELSE make(type, l, r)

del_mult(type, l, r) ==
    IF is_zero(l) \/ is_zero(r) THEN ConstNode(Num(0))
    ELSE IF is_one(l) THEN r
    ELSE IF is_one(r) THEN l
    ELSE IF BothConstant(l, r) THEN ConstNode(MulVal(l[2], r[2]))
    ELSE make(type, l, r)

\* Expression<T>::operator*
OpMultiply(a, b) == del_mult("Multiply", clone(a), clone(b))

\* del_zero that returns r itself for a zero l, Subtract included
del_zero_DropsSign(type, l, r) ==
    IF is_zero(l) THEN r
    ELSE IF is_zero(r) THEN l
    ELSE IF BothConstant(l, r)
    THEN ConstNode(AddVal(l[2], IF type = "Add" THEN r[2] ELSE NegVal(r[2])))
    ELSE make(type, l, r)

del_zero(type, l, r) ==
    IF is_zero(l)
    THEN clone(OpMultiply(ConstNode(Num(IF type = "Subtract" THEN -1 ELSE 1)), r))
    ELSE IF is_zero(r) THEN l
    ELSE IF BothConstant(l, r)
    THEN ConstNode(AddVal(l[2], IF type = "Add" THEN r[2] ELSE NegVal(r[2])))
    ELSE make(type, l, r)

\* del_div without its is_zero rule
del_div_KeepsZero(type, l, r) ==
    IF is_one(r) THEN l
    ELSE IF BothConstant(l, r) THEN ConstNode(DivVal(l[2], r[2]))
    ELSE make(type, l, r)

del_div(type, l, r) ==
    IF is_one(r) THEN l
    ELSE IF is_zero(l) THEN ConstNode(Num(0))
    ELSE IF BothConstant(l, r) THEN ConstNode(DivVal(l[2], r[2]))
    ELSE make(type, l, r)

del_pow(type, l, r) ==
    IF is_one(r) THEN l
    ELSE IF is_zero(r) THEN ConstNode(Num(1))
    ELSE IF BothConstant(l, r) THEN ConstNode(PowVal(l[2], r[2]))
    ELSE make(type, l, r)

\* Expression<T>::operator+ - / ^
OpAdd(a, b) == del_zero("Add", clone(a), clone(b))
OpSubtract(a, b) == del_zero("Subtract", clone(a), clone(b))
OpDivide(a, b) == del_div("Divide", clone(a), clone(b))
OpPower(a, b) == del_pow("Power", clone(a), clone(b))

\* Expression<T>::sin, cos, exp, ln
ExprFunction(type, a) == FunctionNode(type, clone(a))

\* ConstNode<T>::diff and VarNode<T>::diff
ConstNode_diff(dv) == ConstNode(Num(0))
\* VarNode::diff that gives 1 for every variable
VarNode_diff_AnyName(name, dv) == ConstNode(Num(1))

VarNode_diff(name, dv) == ConstNode(Num(IF name = dv THEN 1 ELSE 0))

\* the cases of BinaryOpNode<T>::diff; left_diff and right_diff are the
\* derivatives of the children
diff_Add(left, right, left_diff, right_diff) ==
    del_zero("Add", clone(left_diff), clone(right_diff))

diff_Subtract(left, right, left_diff, right_diff) ==
    del_zero("Subtract", clone(left_diff), clone(right_diff))

diff_Multiply(left, right, left_diff, right_diff) ==
    LET new_left == del_mult("Multiply", clone(left_diff), clone(right))
        new_right == del_mult("Multiply", clone(left), clone(right_diff))
    IN  del_zero("Add", clone(new_left), clone(new_right))

diff_Divide(left, right, left_diff, right_diff) ==
    LET new_sub_left == del_mult("Multiply", clone(left_diff), clone(right))
        new_sub_right == del_mult("Multiply", clone(left), clone(right_diff))
        num == del_zero("Subtract", clone(new_sub_left), clone(new_sub_right))
        den == del_pow("Power", clone(right), ConstNode(Num(2)))
    IN  del_div("Divide", clone(num), clone(den))

diff_Power(left, right, left_diff, right_diff) ==
    LET big_left_node == del_pow("Power", clone(left), clone(right))
        small_left_node ==
            del_mult("Multiply", clone(left_diff), del_div("Divide", clone(right), clone(left)))
        small_right_node ==
            del_mult("Multiply", clone(right_diff), FunctionNode("Ln", left))
        big_right_node == del_zero("Add", small_left_node, small_right_node)
    IN  del_mult("Multiply", big_left_node, big_right_node)

BinaryOpNode_diff(type, left, right, left_diff, right_diff) ==
    CASE type = "Add" -> diff_Add(left, right, left_diff, right_diff)
      [] type = "Subtract" -> diff_Subtract(left, right, left_diff, right_diff)
      [] type = "Multiply" -> diff_Multiply(left, right, left_diff, right_diff)
      [] type = "Divide" -> diff_Divide(left, right, left_diff, right_diff)
      [] type = "Power" -> diff_Power(left, right, left_diff, right_diff)

\* the cases of FunctionNode<T>::diff; arg_diff is the derivative of arg
diff_Sin(arg, arg_diff) ==
    LET new_node == FunctionNode("Cos", clone(arg))
    IN  del_mult("Multiply", clone(new_node), clone(arg_diff))

\* the Cos case without the factor -1
diff_Cos_NoNegation(arg, arg_diff) ==
    LET new_node == FunctionNode("Sin", clone(arg))
    IN  del_mult("Multiply", clone(new_node), clone(arg_diff))

diff_Cos(arg, arg_diff) ==
    LET new_node == FunctionNode("Sin", clone(arg))
        neg_node == del_mult("Multiply", ConstNode(Num(-1)), clone(new_node))
    IN  del_mult("Multiply", clone(neg_node), clone(arg_diff))

diff_Exp(arg, arg_diff) ==
    LET new_node == FunctionNode("Exp", clone(arg))
    IN  del_mult("Multiply", clone(new_node), clone(arg_diff))

diff_Ln(arg, arg_diff) ==
    LET reciprocal == del_div("Divide", ConstNode(Num(1)), clone(arg))
    IN  del_mult("Multiply", clone(reciprocal), clone(arg_diff))

FunctionNode_diff(type, arg, arg_diff) ==
    CASE type = "Sin" -> diff_Sin(arg, arg_diff)
      [] type = "Cos" -> diff_Cos(arg, arg_diff)
      [] type = "Exp" -> diff_Exp(arg, arg_diff)
      [] type = "Ln" -> diff_Ln(arg, arg_diff)

RECURSIVE diff(_, _)
\* Node<T>::diff
diff(node, dv) ==
    CASE getType(node) = "Constant" -> ConstNode_diff(dv)
      [] getType(node) = "Variable" -> VarNode_diff(node[2], dv)
      [] IsBinary(node) ->
            BinaryOpNode_diff(getType(node), node[2], node[3],
                              diff(node[2], dv), diff(node[3], dv))
      [] IsFunction(node) ->
            FunctionNode_diff(getType(node), node[2], diff(node[2], dv))

----------------------------------------------------------------------------
(* make_expression: the two-stack infix parser.  An index is the C++ index  *)
(* (from 0); a stack is a sequence whose last element is the top.           *)

LowerChars ==
    <<"a", "b", "c", "d", "e", "f", "g", "h", "i", "j", "k", "l", "m",
      "n", "o", "p", "q", "r", "s", "t", "u", "v", "w", "x", "y", "z">>
UpperChars ==
    <<"A", "B", "C", "D", "E", "F", "G", "H", "I", "J", "K", "L", "M",
      "N", "O", "P", "Q", "R", "S", "T", "U", "V", "W", "X", "Y", "Z">>

Range(f) == {f[k] : k \in DOMAIN f}

isdigit(c) == c \in Range(DigitChars)
isalpha(c) == c \in Range(LowerChars) \/ c \in Range(UpperChars)
tolower(c) ==
    IF c \in Range(UpperChars)
    THEN LowerChars[CHOOSE k \in 1..26 : UpperChars[k] = c]
    ELSE c

\* s[i] of a std::string: s[s.size()] is the terminating '\0', written ""
At(s, i) == IF i < Len(s) THEN s[i + 1] ELSE ""

\* priority with '^' ranked with '*' and '/'
priority_PowerAsProduct(op) ==
    IF op = "^" THEN 2
    ELSE IF op = "+" \/ op = "-" THEN 1
    ELSE IF op = "*" \/ op = "/" THEN 2
    ELSE -1

priority(op) ==
    IF op = "^" THEN 3
    ELSE IF op = "+" \/ op = "-" THEN 1
    ELSE IF op = "*" \/ op = "/" THEN 2
    ELSE -1

is_operator(c) == c = "+" \/ c = "-" \/ c = "*" \/ c = "/" \/ c = "^"

RECURSIVE Preprocess_KeepsCase(_)
\* the copy of t without spaces, its letters as they are
Preprocess_KeepsCase(t) ==
    IF t = <<>> THEN <<>>
    ELSE IF Head(t) = " " THEN Preprocess_KeepsCase(Tail(t))
    ELSE <<Head(t)>> \o Preprocess_KeepsCase(Tail(t))

RECURSIVE Preprocess(_)
\* the copy of t without spaces and with its letters in lower case
Preprocess(t) ==
    IF t = <<>> THEN <<>>
    ELSE IF Head(t) = " " THEN Preprocess(Tail(t))
    ELSE IF isalpha(Head(t)) THEN <<tolower(Head(t))>> \o Preprocess(Tail(t))
    ELSE <<Head(t)>> \o Preprocess(Tail(t))

DigitVal(c) == CHOOSE d \in 0..9 : DigitChars[d + 1] = c

RECURSIVE DigitsVal(_, _)
DigitsVal(ds, acc) ==
    IF ds = <<>> THEN acc ELSE DigitsVal(Tail(ds), 10 * acc + DigitVal(Head(ds)))

RECURSIVE UpToDot(_)
\* the digits before the first '.'
UpToDot(cs) == IF cs = <<>> \/ Head(cs) = "." THEN <<>> ELSE <<Head(cs)>> \o UpToDot(Tail(cs))

\* std::stold of a run of digits and dots that starts with a digit: the
\* longest prefix that is a number (digits, one '.', digits)
stold(num) ==
    LET ip == UpToDot(num)
        rest == SubSeq(num, Len(ip) + 2, Len(num))
        fp == UpToDot(rest)
        n == DigitsVal(ip \o fp, 0)
    IN  IF n = 0 THEN PosZero ELSE Ratio(n, IntPow(10, Len(fp)))

RECURSIVE EndOfNumber(_, _)
EndOfNumber(s, i) ==
    IF i < Len(s) /\ (isdigit(At(s, i)) \/ At(s, i) = ".") THEN EndOfNumber(s, i + 1) ELSE i

RECURSIVE EndOfToken(_, _)
EndOfToken(s, i) ==
    IF i < Len(s) /\ isalpha(At(s, i)) THEN EndOfToken(s, i + 1) ELSE i

RECURSIVE EndOfOperand(_, _)
\* the unary minus branch's scan: up to the next operator character
EndOfOperand(s, i) ==
    IF i < Len(s) /\ ~is_operator(At(s, i)) THEN EndOfOperand(s, i + 1) ELSE i

RECURSIVE ScanArgument_FirstClose(_, _, _, _)
\* the scan for ')' without the count of the '(' on the way
ScanArgument_FirstClose(s, i, balance, arg) ==
    IF i < Len(s) /\ balance > 0
    THEN LET b == IF At(s, i) = ")" THEN balance - 1 ELSE balance
         IN  ScanArgument_FirstClose(s, i + 1, b, IF b > 0 THEN Append(arg, At(s, i)) ELSE arg)
    ELSE <<i, arg>>

RECURSIVE ScanArgument(_, _, _, _)
\* the function branch's scan for the matching ')': <<i, arg>> at its end
ScanArgument(s, i, balance, arg) ==
    IF i < Len(s) /\ balance > 0
    THEN LET b == IF At(s, i) = "(" THEN balance + 1
                  ELSE IF At(s, i) = ")" THEN balance - 1
                  ELSE balance
         IN  ScanArgument(s, i + 1, b, IF b > 0 THEN Append(arg, At(s, i)) ELSE arg)
    ELSE <<i, arg>>

\* the std::map functions: the node type of a function name, "" for none
FunctionOf(token) ==
    IF token = <<"s", "i", "n">> THEN "Sin"
    ELSE IF token = <<"c", "o", "s">> THEN "Cos"
    ELSE IF token = <<"l", "n">> THEN "Ln"
    ELSE IF token = <<"e", "x", "p">> THEN "Exp"
    ELSE ""

Top(stack) == stack[Len(stack)]
Pop(stack) == SubSeq(stack, 1, Len(stack) - 1)

\* what the parser ends with
Returned(e) == <<"ok", e>>
Undefined(what) == <<"UB", what>>
IsReturned(r) == r[1] = "ok"
IsUndefined(r) == r[1] = "UB"

\* vals.push(left op right) of the three combining loops; for an op that is
\* none of the five (a '(' left on the stack) nothing is pushed
PushCombined(vals, op, left, right) ==
    IF op = "+" THEN Append(vals, OpAdd(left, right))
    ELSE IF op = "-" THEN Append(vals, OpSubtract(left, right))
    ELSE IF op = "*" THEN Append(vals, OpMultiply(left, right))
    ELSE IF op = "/" THEN Append(vals, OpDivide(left, right))
    ELSE IF op = "^" THEN Append(vals, OpPower(left, right))
    ELSE vals

\* the loop condition with > for >= in the operator branch
Combining_Strict(ops, mode, c) ==
    /\ ops # <<>>
    /\ CASE mode = "op" -> priority(Top(ops)) > priority(c)
         [] mode = ")" -> Top(ops) # "("
         [] OTHER -> TRUE

\* the condition of the combining loop: of the operator branch ("op", with
\* the incoming operator c), of the ')' branch (")") and of the final drain
Combining(ops, mode, c) ==
    /\ ops # <<>>
    /\ CASE mode = "op" -> priority(Top(ops)) >= priority(c)
         [] mode = ")" -> Top(ops) # "("
         [] OTHER -> TRUE

RECURSIVE Combine(_, _, _, _)
\* a combining loop: <<"ok", vals, ops>> at its end, or the undefined
\* behaviour of top() and pop() on an empty operand stack
Combine(vals, ops, mode, c) ==
    IF ~Combining(ops, mode, c) THEN <<"ok", vals, ops>>
    ELSE IF Len(vals) < 2 THEN Undefined("vals.top() on an empty stack")
    ELSE LET op == Top(ops)
             right == Top(vals)
             left == Top(Pop(vals))
         IN  Combine(PushCombined(Pop(Pop(vals)), op, left, right), Pop(ops), mode, c)

RECURSIVE make_expression(_)
RECURSIVE Scan(_, _, _, _, _)

\* the main loop from index i on, then the final drain and the return; with
\* sized, a return is reported with the size of the operand stack it leaves,
\* as <<"ok", vals.top(), vals.size()>>
Scan(s, i, vals, ops, sized) ==
    IF i >= Len(s)
    THEN LET d == Combine(vals, ops, "end", "")
         IN  IF IsUndefined(d) THEN d
             ELSE IF d[2] = <<>> THEN Undefined("vals.top() on an empty stack")
             ELSE IF sized THEN <<"ok", Top(d[2]), Len(d[2])>>
             ELSE Returned(Top(d[2]))
    ELSE LET c == At(s, i)
         IN  IF c = " " THEN Scan(s, i + 1, vals, ops, sized)
             ELSE IF isdigit(c) THEN
                LET j == EndOfNumber(s, i)
                    num == SubSeq(s, i + 1, j)
                IN  Scan(s, j, Append(vals, ConstNode(stold(num))), ops, sized)
             ELSE IF isalpha(c) THEN
                LET j == EndOfToken(s, i)
                    token == SubSeq(s, i + 1, j)
                IN  IF FunctionOf(token) # ""
                    THEN IF At(s, j) # "(" THEN Throw("Expected '('", token)
                         ELSE LET a == ScanArgument(s, j + 1, 1, <<>>)
                                  arg == a[2]
                              IN  IF arg = <<>> THEN Throw("Expected argument", token)
                                  ELSE LET expr_arg == make_expression(arg)
                                       IN  IF ~IsReturned(expr_arg) THEN expr_arg
                                           ELSE Scan(s, a[1],
                                                     Append(vals, ExprFunction(FunctionOf(token),
                                                                               expr_arg[2])),
                                                     ops, sized)
                    ELSE Scan(s, j, Append(vals, VarNode(token)), ops, sized)
             ELSE IF is_operator(c) THEN
                IF i = 0 \/ is_operator(At(s, i - 1))
                THEN IF c = "-"
                     THEN LET j == EndOfOperand(s, i)
                              tmp == SubSeq(s, i + 1, j)
                              operand == make_expression(tmp)
                          IN  IF ~IsReturned(operand) THEN operand
                              ELSE Scan(s, j, Append(vals, OpMultiply(ConstNode(Num(-1)),
                                                                      operand[2])), ops, sized)
                     ELSE Throw("Incorrect expression", <<c>>)
                ELSE LET d == Combine(vals, ops, "op", c)
                     IN  IF IsUndefined(d) THEN d
                         ELSE Scan(s, i + 1, d[2], Append(d[3], c), sized)
             ELSE IF c = "(" THEN Scan(s, i + 1, vals, Append(ops, c), sized)
             ELSE IF c = ")" THEN
                LET d == Combine(vals, ops, ")", c)
                IN  IF IsUndefined(d) THEN d
                    ELSE IF d[3] = <<>> THEN Undefined("ops.pop() on an empty stack")
                    ELSE Scan(s, i + 1, d[2], Pop(d[3]), sized)
             ELSE Scan(s, i + 1, vals, ops, sized)

\* the call with the size of the operand stack at its return statement (the
\* operator stack is empty there: the final drain runs until it is)
make_expression_stacks(t) == Scan(Preprocess(t), 0, <<>>, <<>>, TRUE)

make_expression(t) == Scan(Preprocess(t), 0, <<>>, <<>>, FALSE)

----------------------------------------------------------------------------
(* The inputs of a session *)

LiteralTokens == {<<"0">>, <<"1">>, <<"2">>, <<"3">>}
NameTokens == {<<"x">>, <<"y">>}
OperatorTokens == {<<"+">>, <<"-">>, <<"*">>, <<"/">>, <<"^">>}
CallTokens == {<<"s", "i", "n", "(">>, <<"c", "o", "s", "(">>, <<"l", "n", "(">>,
               <<"e", "x", "p", "(">>}

RECURSIVE InfixTexts(_, _, _, _)
\* the texts of at most n tokens that complete an infix expression: operand
\* says that an operand must come next, depth counts the open parentheses,
\* minus says that a unary '-' may come next
InfixTexts(n, operand, depth, minus) ==
    IF operand
    THEN IF n = 0 THEN {}
         ELSE {o \o t : o \in LiteralTokens \cup NameTokens,
                        t \in InfixTexts(n - 1, FALSE, depth, FALSE)}
              \cup {o \o t : o \in {<<"(">>} \cup CallTokens,
                             t \in InfixTexts(n - 1, TRUE, depth + 1, TRUE)}
              \cup (IF minus
                    THEN {<<"-">> \o t : t \in InfixTexts(n - 1, TRUE, depth, FALSE)}
                    ELSE {})
    ELSE (IF depth = 0 THEN {<<>>} ELSE {})
         \cup (IF n = 0 THEN {}
               ELSE {o \o t : o \in OperatorTokens,
                              t \in InfixTexts(n - 1, TRUE, depth, TRUE)}
                    \cup (IF depth > 0
                          THEN {<<")">> \o t : t \in InfixTexts(n - 1, FALSE, depth - 1, FALSE)}
                          ELSE {}))

Texts == InfixTexts(MaxLen, TRUE, 0, TRUE)

\* the tokens of the texts that follow no grammar: letters of both cases, a
\* space, a function name with and without its parenthesis
RawTokens ==
    {<<"x">>, <<"X">>, <<"3">>, <<"+">>, <<"*">>, <<"-">>, <<"(">>, <<")">>, <<" ">>,
     <<"s", "i", "n">>, <<"S", "I", "N", "(">>}

\* the tokens of the texts with characters that no branch of the scan loop
\* takes up, and with decimal points in and out of a number
OddTokens ==
    {<<"3">>, <<"x">>, <<"+">>, <<"#">>, <<",">>, <<".">>, <<"1", ".", "2">>}

RECURSIVE RawTexts(_, _)
\* every text of one to n of the tokens
RawTexts(tokens, n) ==
    IF n = 0 THEN {}
    ELSE tokens \cup RawTexts(tokens, n - 1)
         \cup {t \o o : t \in RawTexts(tokens, n - 1), o \in tokens}

\* std::string s of the demonstration program
DemoText ==
    <<"x", " ", "*", " ", "(", "5", " ", "+", " ", "2", " ", "-", " ", "2", ")", " ",
      "*", " ", "1", " ", "*", " ", "0", " ", "-", " ", "3", " ", "*", " ", "x", " ",
      "^", " ", "2">>

\* a function call with parentheses inside its argument and text after it
CallText ==
    <<"s", "i", "n", "(", "(", "x", "+", "1", ")", "*", "2", ")", "+", "y">>

\* a sum with a number below the six decimals that std::to_string prints
TinyText == <<"x", "+", "0", ".", "0", "0", "0", "0", "0", "0", "1">>

\* the texts a session may hand to make_expression
Inputs == Texts \cup RawTexts(RawTokens, RawLen) \cup RawTexts(OddTokens, RawLen)
          \cup {DemoText, CallText, TinyText}

Names == {<<"x">>, <<"y">>}
BindValues == {Num(0), Num(2)}
\* the std::map arguments of eval
Bindings == UNION {[D -> BindValues] : D \in SUBSET Names}

\* the Expression values a client constructs from a number or a name
Leaves == {ConstNode(Num(1)), ConstNode(Num(2))} \cup {VarNode(v) : v \in Names}

None == <<"none">>

\* What the build may do once make_expression has called top() or pop() on
\* an empty std::stack: the process dies, or the call goes on with whatever
\* the read found and returns an Expression that is unrelated to the text.
Crashed == <<"crash">>
UndefinedOutcomes == {Crashed} \cup {Returned(g) : g \in {ConstNode(Num(0)), VarNode(<<"x">>)}}

----------------------------------------------------------------------------
(* The sessions.  expr is what the last constructing call produced          *)
(* (<<"ok", tree>>, a thrown exception, a crash), other a second Expression  *)
(* the client holds, src the tree that diff was called on, dvar its          *)
(* variable, bindings and val the argument and the result of the last eval, *)
(* str the result of the last to_string, count the combinator calls made.  *)

TypeOK ==
    /\ pc \in {"start", "init", "built", "parsed", "failed", "diffed", "evaluated", "printed",
                "operands", "made", "owned", "main", "exited"}
    /\ count \in 0..(MaxOps + MaxOwned)

InitParse ==
    /\ pc = "start"
    /\ text \in Inputs
    /\ expr = None
    /\ other = None
    /\ count = 0
    /\ src = None
    /\ dvar = <<>>
    /\ bindings = <<>>
    /\ val = None
    /\ str = <<>>
    /\ call = None
    /\ regs = <<>>

InitBuild ==
    /\ pc = "init"
    /\ text = <<>>
    /\ expr = None
    /\ other = None
    /\ count = 0
    /\ src = None
    /\ dvar = <<>>
    /\ bindings = <<>>
    /\ val = None
    /\ str = <<>>
    /\ call = None
    /\ regs = <<>>

\* auto e = make_expression<Real>(text)
MakeExpression ==
    /\ pc = "start"
    /\ LET r == make_expression(text)
       IN  \E out \in (IF IsUndefined(r) THEN UndefinedOutcomes ELSE {r}) :
               /\ expr' = out
               /\ pc' = IF IsReturned(out) THEN "parsed" ELSE "failed"
    /\ UNCHANGED <<text, other, count, src, dvar, bindings, val, str, call, regs>>

\* Expression<Real> e(value) or e(name); with an Expression already in hand
\* the client keeps it as other
Construct(leaf) ==
    /\ \/ pc = "init" /\ other' = other
       \/ pc = "built" /\ other = None /\ count < MaxOps /\ other' = expr[2]
    /\ expr' = Returned(leaf)
    /\ pc' = "built"
    /\ UNCHANGED <<text, count, src, dvar, bindings, val, str, call, regs>>

\* the operand of a binary combinator: the other Expression, or e itself
\* (e op e) when the client holds none
BinaryResult(op, l, r) ==
    CASE op = "Add" -> OpAdd(l, r)
      [] op = "Subtract" -> OpSubtract(l, r)
      [] op = "Multiply" -> OpMultiply(l, r)
      [] op = "Divide" -> OpDivide(l, r)
      [] op = "Power" -> OpPower(l, r)

\* e = other op e, or e = e op e
BinaryOperator(op) ==
    /\ pc = "built"
    /\ count < MaxOps
    /\ expr' = Returned(BinaryResult(op, IF other = None THEN expr[2] ELSE other, expr[2]))
    /\ other' = None
    /\ count' = count + 1
    /\ UNCHANGED <<pc, text, src, dvar, bindings, val, str, call, regs>>

\* e = e.sin(), e.cos(), e.exp(), e.ln()
UnaryFunction(type) ==
    /\ pc = "built"
    /\ count < MaxOps
    /\ expr' = Returned(ExprFunction(type, expr[2]))
    /\ count' = count + 1
    /\ UNCHANGED <<pc, text, other, src, dvar, bindings, val, str, call, regs>>

\* e = e.diff(x)
Differentiate(x) ==
    /\ pc \in {"parsed", "built"}
    /\ other = None
    /\ src' = expr[2]
    /\ dvar' = x
    /\ expr' = Returned(diff(expr[2], x))
    /\ pc' = "diffed"
    /\ UNCHANGED <<text, other, count, bindings, val, str, call, regs>>

\* e.eval(b)
Evaluate(b) ==
    /\ pc \in {"parsed", "diffed"}
    /\ bindings' = b
    /\ val' = eval(expr[2], b)
    /\ pc' = "evaluated"
    /\ UNCHANGED <<text, expr, other, count, src, dvar, str, call, regs>>

\* e.to_string()
Serialize ==
    /\ pc \in {"parsed", "built", "diffed"}
    /\ other = None
    /\ str' = to_string(expr[2])
    /\ pc' = "printed"
    /\ UNCHANGED <<text, expr, other, count, src, dvar, bindings, val, call, regs>>

NextParse ==
    \/ MakeExpression
    \/ \E x \in Names : Differentiate(x)
    \/ \E b \in Bindings : Evaluate(b)
    \/ Serialize

NextBuild ==
    \/ \E leaf \in Leaves : Construct(leaf)
    \/ \E op \in BinaryTypes : BinaryOperator(op)
    \/ \E type \in FunctionTypes : UnaryFunction(type)
    \/ \E x \in Names : Differentiate(x)
    \/ Serialize

\* a session that parses a text, then differentiates, evaluates or prints
Spec == InitParse /\ [][NextParse]_vars

\* a session that builds an Expression with the combinators, then
\* differentiates or prints
SpecBuild == InitBuild /\ [][NextBuild]_vars

----------------------------------------------------------------------------
(* One call of a binary combinator on two given operands *)

\* the trees of the two Expression operands
Operands ==
    {ConstNode(PosZero), ConstNode(NegZero), ConstNode(Num(1)), ConstNode(Num(-1)),
     ConstNode(Num(2)), ConstNode(Num(3)), VarNode(<<"x">>), VarNode(<<"y">>),
     make("Add", VarNode(<<"x">>), ConstNode(Num(1))),
     make("Multiply", ConstNode(Num(2)), VarNode(<<"y">>)),
     FunctionNode("Sin", VarNode(<<"x">>)),
     FunctionNode("Ln", ConstNode(Num(2)))}

InitRules ==
    /\ pc = "operands"
    /\ call \in {<<"operands", l, r>> : l \in Operands, r \in Operands}
    /\ text = <<>>
    /\ expr = None
    /\ other = None
    /\ count = 0
    /\ src = None
    /\ dvar = <<>>
    /\ bindings = <<>>
    /\ val = None
    /\ str = <<>>
    /\ regs = <<>>

\* e = l op r
Combinator(op) ==
    /\ pc = "operands"
    /\ expr' = Returned(BinaryResult(op, call[2], call[3]))
    /\ call' = <<op, call[2], call[3]>>
    /\ pc' = "made"
    /\ UNCHANGED <<text, other, count, src, dvar, bindings, val, str, regs>>

NextRules == \E op \in BinaryTypes : Combinator(op)

\* the five combinators on every pair of operands
SpecRules == InitRules /\ [][NextRules]_vars

----------------------------------------------------------------------------
(* The nodes as objects.  A std::shared_ptr<Node<T>> is the node it points  *)
(* to, with the identity of the object as its last field:                   *)
(*    <<"Constant", value, id>>, <<"Variable", name, id>>,                  *)
(*    <<type, left, right, id>>, <<type, arg, id>>.                         *)
(* std::make_shared gives an object distinct from every other: its id is    *)
(* the place of the allocation, `at`, the number of the client's statement  *)
(* followed by the call sites that lead to it; clone() gives the copy of a  *)
(* node the id of the clone call followed by the path from the cloned root. *)
(* Returning or storing a pointer keeps the id: that is sharing.            *)

Id(node) == node[Len(node)]

RECURSIVE Shape(_)
\* the tree of a node object, identities left out
Shape(node) ==
    CASE node[1] \in {"Constant", "Variable"} -> <<node[1], node[2]>>
      [] node[1] \in BinaryTypes -> <<node[1], Shape(node[2]), Shape(node[3])>>
      [] node[1] \in FunctionTypes -> <<node[1], Shape(node[2])>>

RECURSIVE Nodes(_)
\* the identities of the node objects reachable from a root
Nodes(node) ==
    CASE node[1] \in {"Constant", "Variable"} -> {Id(node)}
      [] node[1] \in BinaryTypes -> {Id(node)} \cup Nodes(node[2]) \cup Nodes(node[3])
      [] node[1] \in FunctionTypes -> {Id(node)} \cup Nodes(node[2])

\* std::make_shared<ConstNode<T>>(v), <VarNode<T>>(name), ...
ConstNode_at(v, at) == <<"Constant", v, at>>
VarNode_at(name, at) == <<"Variable", name, at>>
BinaryOpNode_at(type, l, r, at) == <<type, l, r, at>>
FunctionNode_at(type, arg, at) == <<type, arg, at>>

RECURSIVE clone_at(_, _)
\* node->clone(): a new object for every node below, children first
clone_at(node, at) ==
    CASE node[1] = "Constant" -> ConstNode_at(node[2], at)
      [] node[1] = "Variable" -> VarNode_at(node[2], at)
      [] node[1] \in BinaryTypes ->
            BinaryOpNode_at(node[1], clone_at(node[2], at \o <<"1">>),
                            clone_at(node[3], at \o <<"2">>), at)
      [] node[1] \in FunctionTypes ->
            FunctionNode_at(node[1], clone_at(node[2], at \o <<"1">>), at)

make_at(op, l, r, at) == BinaryOpNode_at(op, l, r, at)

del_mult_at(type, l, r, at) ==
    IF is_zero(l) \/ is_zero(r) THEN ConstNode_at(Num(0), at)
    ELSE IF is_one(l) THEN r
    ELSE IF is_one(r) THEN l
    ELSE IF BothConstant(l, r) THEN ConstNode_at(MulVal(l[2], r[2]), at)
    ELSE make_at(type, l, r, at)

\* Expression::operator* on the roots a and b
OpMultiply_at(a, b, at) ==
    del_mult_at("Multiply", clone_at(a, at \o <<"this">>), clone_at(b, at \o <<"other">>),
                at \o <<"new">>)

del_zero_at(type, l, r, at) ==
    IF is_zero(l)
    THEN clone_at(OpMultiply_at(ConstNode_at(Num(IF type = "Subtract" THEN -1 ELSE 1),
                                             at \o <<"sign">>),
                                r, at \o <<"times">>),
                  at \o <<"clone">>)
    ELSE IF is_zero(r) THEN l
    ELSE IF BothConstant(l, r)
    THEN ConstNode_at(AddVal(l[2], IF type = "Add" THEN r[2] ELSE NegVal(r[2])), at)
    ELSE make_at(type, l, r, at)

del_div_at(type, l, r, at) ==
    IF is_one(r) THEN l
    ELSE IF is_zero(l) THEN ConstNode_at(Num(0), at)
    ELSE IF BothConstant(l, r) THEN ConstNode_at(DivVal(l[2], r[2]), at)
    ELSE make_at(type, l, r, at)

del_pow_at(type, l, r, at) ==
    IF is_one(r) THEN l
    ELSE IF is_zero(r) THEN ConstNode_at(Num(1), at)
    ELSE IF BothConstant(l, r) THEN ConstNode_at(PowVal(l[2], r[2]), at)
    ELSE make_at(type, l, r, at)

\* the del_ function of a combinator
Simplifier_at(type, l, r, at) ==
    CASE type \in {"Add", "Subtract"} -> del_zero_at(type, l, r, at)
      [] type = "Multiply" -> del_mult_at(type, l, r, at)
      [] type = "Divide" -> del_div_at(type, l, r, at)
      [] type = "Power" -> del_pow_at(type, l, r, at)

\* a combinator that hands its own root to the del_ function uncloned
BinaryOperator_at_SharesThis(type, a, b, at) ==
    Simplifier_at(type, a, clone_at(b, at \o <<"other">>), at \o <<"new">>)

\* Expression::operator+ - * / ^ on the roots a (this) and b (other)
BinaryOperator_at(type, a, b, at) ==
    Simplifier_at(type, clone_at(a, at \o <<"this">>), clone_at(b, at \o <<"other">>),
                  at \o <<"new">>)

\* Expression::sin / cos / exp / ln
ExprFunction_at(type, a, at) ==
    FunctionNode_at(type, clone_at(a, at \o <<"this">>), at)

\* BinaryOpNode<T>::diff, the objects left_diff and right_diff in hand
diff_Add_at(type, left, right, left_diff, right_diff, at) ==
    del_zero_at(type, clone_at(left_diff, at \o <<"c1">>), clone_at(right_diff, at \o <<"c2">>),
                at \o <<"sum">>)

diff_Multiply_at(left, right, left_diff, right_diff, at) ==
    LET new_left == del_mult_at("Multiply", clone_at(left_diff, at \o <<"c1">>),
                                clone_at(right, at \o <<"c2">>), at \o <<"new_left">>)
        new_right == del_mult_at("Multiply", clone_at(left, at \o <<"c3">>),
                                 clone_at(right_diff, at \o <<"c4">>), at \o <<"new_right">>)
    IN  del_zero_at("Add", clone_at(new_left, at \o <<"c5">>),
                    clone_at(new_right, at \o <<"c6">>), at \o <<"sum">>)

diff_Divide_at(left, right, left_diff, right_diff, at) ==
    LET new_sub_left == del_mult_at("Multiply", clone_at(left_diff, at \o <<"c1">>),
                                    clone_at(right, at \o <<"c2">>), at \o <<"new_sub_left">>)
        new_sub_right == del_mult_at("Multiply", clone_at(left, at \o <<"c3">>),
                                     clone_at(right_diff, at \o <<"c4">>),
                                     at \o <<"new_sub_right">>)
        num == del_zero_at("Subtract", clone_at(new_sub_left, at \o <<"c5">>),
                           clone_at(new_sub_right, at \o <<"c6">>), at \o <<"num">>)
        den == del_pow_at("Power", clone_at(right, at \o <<"c7">>),
                          ConstNode_at(Num(2), at \o <<"two">>), at \o <<"den">>)
    IN  del_div_at("Divide", clone_at(num, at \o <<"c8">>), clone_at(den, at \o <<"c9">>),
                   at \o <<"quotient">>)

\* the Power case: its Ln node takes left itself, and no result is cloned
diff_Power_at(left, right, left_diff, right_diff, at) ==
    LET big_left_node == del_pow_at("Power", clone_at(left, at \o <<"c1">>),
                                    clone_at(right, at \o <<"c2">>), at \o <<"big_left">>)
        small_left_node ==
            del_mult_at("Multiply", clone_at(left_diff, at \o <<"c3">>),
                        del_div_at("Divide", clone_at(right, at \o <<"c4">>),
                                   clone_at(left, at \o <<"c5">>), at \o <<"ratio">>),
                        at \o <<"small_left">>)
        small_right_node ==
            del_mult_at("Multiply", clone_at(right_diff, at \o <<"c6">>),
                        FunctionNode_at("Ln", left, at \o <<"ln">>), at \o <<"small_right">>)
        big_right_node == del_zero_at("Add", small_left_node, small_right_node,
                                      at \o <<"big_right">>)
    IN  del_mult_at("Multiply", big_left_node, big_right_node, at \o <<"product">>)

BinaryOpNode_diff_at(type, left, right, left_diff, right_diff, at) ==
    CASE type \in {"Add", "Subtract"} -> diff_Add_at(type, left, right, left_diff, right_diff, at)
      [] type = "Multiply" -> diff_Multiply_at(left, right, left_diff, right_diff, at)
      [] type = "Divide" -> diff_Divide_at(left, right, left_diff, right_diff, at)
      [] type = "Power" -> diff_Power_at(left, right, left_diff, right_diff, at)

\* FunctionNode<T>::diff, the object arg_diff in hand
FunctionNode_diff_at(type, arg, arg_diff, at) ==
    CASE type = "Sin" ->
            LET new_node == FunctionNode_at("Cos", clone_at(arg, at \o <<"c1">>), at \o <<"cos">>)
            IN  del_mult_at("Multiply", clone_at(new_node, at \o <<"c2">>),
                            clone_at(arg_diff, at \o <<"c3">>), at \o <<"product">>)
      [] type = "Cos" ->
            LET new_node == FunctionNode_at("Sin", clone_at(arg, at \o <<"c1">>), at \o <<"sin">>)
                neg_node == del_mult_at("Multiply", ConstNode_at(Num(-1), at \o <<"minus">>),
                                        clone_at(new_node, at \o <<"c2">>), at \o <<"neg">>)
            IN  del_mult_at("Multiply", clone_at(neg_node, at \o <<"c3">>),
                            clone_at(arg_diff, at \o <<"c4">>), at \o <<"product">>)
      [] type = "Exp" ->
            LET new_node == FunctionNode_at("Exp", clone_at(arg, at \o <<"c1">>), at \o <<"exp">>)
            IN  del_mult_at("Multiply", clone_at(new_node, at \o <<"c2">>),
                            clone_at(arg_diff, at \o <<"c3">>), at \o <<"product">>)
      [] type = "Ln" ->
            LET reciprocal == del_div_at("Divide", ConstNode_at(Num(1), at \o <<"one">>),
                                         clone_at(arg, at \o <<"c1">>), at \o <<"reciprocal">>)
            IN  del_mult_at("Multiply", clone_at(reciprocal, at \o <<"c2">>),
                            clone_at(arg_diff, at \o <<"c3">>), at \o <<"product">>)

RECURSIVE diff_at(_, _, _)
\* node->diff(dvar)
diff_at(node, dv, at) ==
    CASE node[1] = "Constant" -> ConstNode_at(Num(0), at)
      [] node[1] = "Variable" -> ConstNode_at(IF node[2] = dv THEN Num(1) ELSE Num(0), at)
      [] node[1] \in BinaryTypes ->
            BinaryOpNode_diff_at(node[1], node[2], node[3],
                                 diff_at(node[2], dv, at \o <<"left_diff">>),
                                 diff_at(node[3], dv, at \o <<"right_diff">>), at)
      [] node[1] \in FunctionTypes ->
            FunctionNode_diff_at(node[1], node[2],
                                 diff_at(node[2], dv, at \o <<"arg_diff">>), at)

----------------------------------------------------------------------------
(* A client with two Expression variables: regs[1] and regs[2] are their    *)
(* roots (None before the variable is constructed), count numbers the       *)
(* statements, call is the last one: <<kind, target, root of the first      *)
(* operand, root of the second>> as they were before it.                    *)

Slots == {1, 2}
OwnedLeaves == {<<"Constant", Num(0)>>, <<"Constant", Num(1)>>, <<"Variable", <<"x">>>>}

InitOwned ==
    /\ pc = "owned"
    /\ regs = <<None, None>>
    /\ call = None
    /\ count = 0
    /\ text = <<>>
    /\ expr = None
    /\ other = None
    /\ src = None
    /\ dvar = <<>>
    /\ bindings = <<>>
    /\ val = None
    /\ str = <<>>

Live(slot) == regs[slot] # None

\* Expression<Real> e(value) or e(name)
NewExpression(slot, leaf) ==
    /\ pc = "owned"
    /\ count < MaxOwned
    /\ regs' = [regs EXCEPT ![slot] = Append(leaf, <<count>>)]
    /\ call' = <<"new", slot, None, None>>
    /\ count' = count + 1
    /\ UNCHANGED <<pc, text, expr, other, src, dvar, bindings, val, str>>

\* Expression<Real> e(f) and e = f: root(other.root->clone())
CopyExpression(slot, from) ==
    /\ pc = "owned"
    /\ count < MaxOwned
    /\ slot # from
    /\ Live(from)
    /\ regs' = [regs EXCEPT ![slot] = clone_at(regs[from], <<count>>)]
    /\ call' = <<"copy", slot, regs[from], regs[from]>>
    /\ count' = count + 1
    /\ UNCHANGED <<pc, text, expr, other, src, dvar, bindings, val, str>>

\* e = a op b
CombineExpressions(type, slot, a, b) ==
    /\ pc = "owned"
    /\ count < MaxOwned
    /\ Live(a)
    /\ Live(b)
    /\ regs' = [regs EXCEPT ![slot] = BinaryOperator_at(type, regs[a], regs[b], <<count>>)]
    /\ call' = <<type, slot, regs[a], regs[b]>>
    /\ count' = count + 1
    /\ UNCHANGED <<pc, text, expr, other, src, dvar, bindings, val, str>>

\* e = a.sin(), a.cos(), a.exp(), a.ln()
ApplyFunction(type, slot, a) ==
    /\ pc = "owned"
    /\ count < MaxOwned
    /\ Live(a)
    /\ regs' = [regs EXCEPT ![slot] = ExprFunction_at(type, regs[a], <<count>>)]
    /\ call' = <<type, slot, regs[a], regs[a]>>
    /\ count' = count + 1
    /\ UNCHANGED <<pc, text, expr, other, src, dvar, bindings, val, str>>

\* e = a.diff("x"): Expression<T>(root->diff(dvar))
DeriveExpression(slot, a) ==
    /\ pc = "owned"
    /\ count < MaxOwned
    /\ Live(a)
    /\ regs' = [regs EXCEPT ![slot] = diff_at(regs[a], <<"x">>, <<count>>)]
    /\ call' = <<"diff", slot, regs[a], regs[a]>>
    /\ count' = count + 1
    /\ UNCHANGED <<pc, text, expr, other, src, dvar, bindings, val, str>>

NextOwned ==
    \/ \E slot \in Slots, leaf \in OwnedLeaves : NewExpression(slot, leaf)
    \/ \E slot \in Slots, from \in Slots : CopyExpression(slot, from)
    \/ \E type \in BinaryTypes, slot \in Slots, a \in Slots, b \in Slots :
          CombineExpressions(type, slot, a, b)
    \/ \E type \in FunctionTypes, slot \in Slots, a \in Slots : ApplyFunction(type, slot, a)
    \/ \E slot \in Slots, a \in Slots : DeriveExpression(slot, a)

\* a session that constructs, copies, combines and differentiates Expression
\* objects
SpecOwned == InitOwned /\ [][NextOwned]_vars

----------------------------------------------------------------------------
(* The command line: main of main.cpp with real arguments (is_comp false).  *)
(* call is <<argv[1], the arguments after argv[2]>> and text is argv[2].    *)

InitMain ==
    /\ pc = "main"
    /\ text \in RawTexts({<<"x">>, <<"X">>, <<"y">>, <<"2">>, <<"+">>, <<"*">>}, RawLen)
    /\ call \in
          {<<"--eval", args>> :
              args \in UNION {[1..n -> {name \o <<"=">> \o v :
                                            name \in {<<"x">>, <<"X">>, <<"y">>},
                                            v \in {<<"0">>, <<"2">>}}] : n \in 0..2}}
          \cup {<<"--diff", <<"--by", name>>>> : name \in {<<"x">>, <<"X">>, <<"y">>}}
    /\ expr = None
    /\ other = None
    /\ count = 0
    /\ src = None
    /\ dvar = <<>>
    /\ bindings = <<>>
    /\ val = None
    /\ str = <<>>
    /\ regs = <<>>

\* type == "--eval": vars[var] = val for every argument var=val, then
\* std::cout << make_expression<Real>(expr_str).eval(vars)
MainEval ==
    /\ pc = "main"
    /\ call[1] = "--eval"
    /\ LET args == call[2]
           pos(a) == (CHOOSE k \in 1..Len(a) :
                         a[k] = "=" /\ \A j \in 1..(k - 1) : a[j] # "=") - 1
           var(a) == SubSeq(a, 1, pos(a))
           value(a) == stold(SubSeq(a, pos(a) + 2, Len(a)))
           twice == \E i, j \in DOMAIN args : i < j /\ var(args[i]) = var(args[j])
           vars_ == [n \in {var(args[k]) : k \in DOMAIN args} |->
                        value(args[CHOOSE k \in DOMAIN args : var(args[k]) = n])]
           r == make_expression(text)
       IN  IF twice
           THEN /\ val' = Throw("2 times one variable", <<>>)
                /\ UNCHANGED <<expr, bindings>>
           ELSE /\ bindings' = vars_
                /\ \E out \in (IF IsUndefined(r) THEN UndefinedOutcomes ELSE {r}) :
                       /\ expr' = out
                       /\ val' = IF IsReturned(out) THEN eval(out[2], vars_) ELSE out
    /\ pc' = "exited"
    /\ UNCHANGED <<text, other, count, src, dvar, str, call, regs>>

\* type == "--diff": std::cout << make_expression<Real>(expr_str).diff(argv[4])
MainDiff ==
    /\ pc = "main"
    /\ call[1] = "--diff"
    /\ LET args == call[2]
           r == make_expression(text)
       IN  IF Len(args) # 2 \/ args[1] # "--by"
           THEN /\ val' = Throw("Invalid request", <<>>)
                /\ UNCHANGED <<expr, src, dvar, str>>
           ELSE /\ dvar' = args[2]
                /\ val' = val
                /\ \E out \in (IF IsUndefined(r) THEN UndefinedOutcomes ELSE {r}) :
                       IF IsReturned(out)
                       THEN /\ src' = out[2]
                            /\ expr' = Returned(diff(out[2], args[2]))
                            /\ str' = to_string(diff(out[2], args[2]))
                       ELSE /\ expr' = out
                            /\ UNCHANGED <<src, str>>
    /\ pc' = "exited"
    /\ UNCHANGED <<text, other, count, bindings, call, regs>>

NextMain == MainEval \/ MainDiff

\* one run of the program from the command line
SpecMain == InitMain /\ [][NextMain]_vars

----------------------------------------------------------------------------
(* What the claims speak of *)

X == <<"x">>
Y == <<"y">>

Tree == expr[2]

\* two outcomes of a computation are the same: the same value (+0 and -0
\* compare equal), or NaN twice
SameOutcome(a, b) == a = b \/ (IsZeroVal(a) /\ IsZeroVal(b))

\* the scalar computation a op b
Scalar(op, a, b) ==
    CASE op = "+" -> AddVal(a, b)
      [] op = "-" -> SubVal(a, b)
      [] op = "*" -> MulVal(a, b)
      [] op = "/" -> DivVal(a, b)
      [] op = "^" -> PowVal(a, b)

\* Direct evaluation of an infix text by recursive descent: '^' over '*' and
\* '/' over '+' and '-', equal priorities from left to right.  A result is
\* <<"v", value, next index>>, or <<"bad">> for a text outside the class
\* (a unary minus, a function call, an unbound name, unbalanced parentheses).
Bad == <<"bad">>

RECURSIVE DigitRunEnd(_, _)
DigitRunEnd(s, i) == IF isdigit(At(s, i)) THEN DigitRunEnd(s, i + 1) ELSE i

RECURSIVE NameEnd(_, _)
NameEnd(s, i) == IF At(s, i) \in Range(LowerChars) THEN NameEnd(s, i + 1) ELSE i

DirectLiteral(s, i) ==
    LET j == DigitRunEnd(s, i)
        k == IF At(s, j) = "." THEN DigitRunEnd(s, j + 1) ELSE j
        whole == DigitsVal(SubSeq(s, i + 1, j), 0)
        frac == IF k > j + 1 THEN DigitsVal(SubSeq(s, j + 2, k), 0) ELSE 0
        scale == IF k > j + 1 THEN IntPow(10, k - j - 1) ELSE 1
    IN  <<"v", IF whole = 0 /\ frac = 0 THEN PosZero ELSE Ratio(whole * scale + frac, scale), k>>

RECURSIVE DirectSum(_, _, _)
RECURSIVE DirectSumTail(_, _, _, _)
RECURSIVE DirectProduct(_, _, _)
RECURSIVE DirectProductTail(_, _, _, _)
RECURSIVE DirectPower(_, _, _)
RECURSIVE DirectPowerTail(_, _, _, _)
RECURSIVE DirectAtom(_, _, _)

DirectAtom(s, i, b) ==
    IF isdigit(At(s, i)) THEN DirectLiteral(s, i)
    ELSE IF At(s, i) \in Range(LowerChars)
    THEN LET j == NameEnd(s, i)
             name == SubSeq(s, i + 1, j)
         IN  IF At(s, j) = "(" \/ name \notin DOMAIN b THEN Bad ELSE <<"v", b[name], j>>
    ELSE IF At(s, i) = "("
    THEN LET e == DirectSum(s, i + 1, b)
         IN  IF e = Bad THEN Bad
             ELSE IF At(s, e[3]) # ")" THEN Bad
             ELSE <<"v", e[2], e[3] + 1>>
    ELSE Bad

DirectPowerTail(s, i, b, acc) ==
    IF At(s, i) = "^"
    THEN LET a == DirectAtom(s, i + 1, b)
         IN  IF a = Bad THEN Bad ELSE DirectPowerTail(s, a[3], b, PowVal(acc, a[2]))
    ELSE <<"v", acc, i>>

DirectPower(s, i, b) ==
    LET a == DirectAtom(s, i, b)
    IN  IF a = Bad THEN Bad ELSE DirectPowerTail(s, a[3], b, a[2])

DirectProductTail(s, i, b, acc) ==
    IF At(s, i) = "*" \/ At(s, i) = "/"
    THEN LET a == DirectPower(s, i + 1, b)
         IN  IF a = Bad THEN Bad
             ELSE DirectProductTail(s, a[3], b, Scalar(At(s, i), acc, a[2]))
    ELSE <<"v", acc, i>>

DirectProduct(s, i, b) ==
    LET a == DirectPower(s, i, b)
    IN  IF a = Bad THEN Bad ELSE DirectProductTail(s, a[3], b, a[2])

DirectSumTail(s, i, b, acc) ==
    IF At(s, i) = "+" \/ At(s, i) = "-"
    THEN LET a == DirectProduct(s, i + 1, b)
         IN  IF a = Bad THEN Bad
             ELSE DirectSumTail(s, a[3], b, Scalar(At(s, i), acc, a[2]))
    ELSE <<"v", acc, i>>

DirectSum(s, i, b) ==
    LET a == DirectProduct(s, i, b)
    IN  IF a = Bad THEN Bad ELSE DirectSumTail(s, a[3], b, a[2])

\* <<"v", value>> for a text of the class whose names b binds, else Bad
DirectValue(t, b) ==
    LET r == DirectSum(t, 0, b)
    IN  IF r # Bad /\ r[3] = Len(t) THEN <<"v", r[2]>> ELSE Bad

\* a binding of every name a text can hold
AllBound == [v \in Names |-> Num(2)]

\* the text is built from literals, names, binary operators and balanced
\* parentheses, with no unary minus
InfixClass(t) == DirectValue(t, AllBound) # Bad

Evaluated == pc = "evaluated" /\ src = None
EvaluatedDerivative == pc = "evaluated" /\ src # None

----------------------------------------------------------------------------
(* C1.  For every infix text of literals, names, the five binary operators   *)
(* and balanced parentheses, without unary minus, and every binding of all  *)
(* its names, make_expression(text).eval(bindings) is the value of the text *)
(* evaluated directly with the usual priorities, left to right.             *)
(* Violated: "0/x" is built as Constant(0) and evaluates to 0 where 0/0 is  *)
(* NaN.                                                                     *)
C1_ParseEvalEqualsDirect ==
    /\ pc = "failed" => ~InfixClass(text)
    /\ Evaluated =>
          LET d == DirectValue(text, bindings)
          IN  d # Bad => SameOutcome(val, d[2])

(* C2.  For all constants a, b and every op of + - * / ^,                    *)
(* make_expression("a op b").eval({}) is the scalar a op b, its undefined    *)
(* outcome for b = 0 included.  Violated: "0/0" gives 0, and 0/0 is NaN.    *)
C2_ConstantPairEqualsScalar ==
    (/\ Len(text) = 3
     /\ <<text[1]>> \in LiteralTokens
     /\ <<text[2]>> \in OperatorTokens
     /\ <<text[3]>> \in LiteralTokens)
    => /\ pc # "failed"
       /\ (Evaluated /\ DOMAIN bindings = {})
            => SameOutcome(val, Scalar(text[2], Num(DigitVal(text[1])), Num(DigitVal(text[3]))))

\* the names of the Variable nodes of a tree
RECURSIVE VariableNames(_)
VariableNames(node) ==
    CASE getType(node) = "Constant" -> {}
      [] getType(node) = "Variable" -> {node[2]}
      [] IsBinary(node) -> VariableNames(node[2]) \cup VariableNames(node[3])
      [] IsFunction(node) -> VariableNames(node[2])

(* C3.  eval fails, with the exception of an unbound variable, exactly when  *)
(* some Variable node of the tree has a name absent from the bindings; an   *)
(* absent variable is never taken as zero: "x+3" under {} fails.            *)
C3_EvalFailsIffUnbound ==
    pc = "evaluated" =>
        /\ IsThrow(val) <=> (\E name \in VariableNames(Tree) : name \notin DOMAIN bindings)
        /\ IsThrow(val) => val[2] = "is not provided" /\ val[3] \in VariableNames(Tree)
        /\ (text = <<"x", "+", "3">> /\ src = None /\ DOMAIN bindings = {}) => IsThrow(val)

C3_Witness ==
    /\ pc = "evaluated"
    /\ text = <<"x", "+", "3">>
    /\ src = None
    /\ DOMAIN bindings = {}
    /\ val = Throw("is not provided", X)

----------------------------------------------------------------------------
(* The smart constructors and the differentiation rules as the              *)
(* specification words them                                                 *)

ZeroConstant(node) == getType(node) = "Constant" /\ NumEq(node[2], Num(0))
OneConstant(node) == getType(node) = "Constant" /\ NumEq(node[2], Num(1))
Constants(l, r) == getType(l) = "Constant" /\ getType(r) = "Constant"

makeMultiply(l, r) ==
    IF ZeroConstant(l) \/ ZeroConstant(r) THEN <<"Constant", Num(0)>>
    ELSE IF OneConstant(l) THEN r
    ELSE IF OneConstant(r) THEN l
    ELSE IF Constants(l, r) THEN <<"Constant", Scalar("*", l[2], r[2])>>
    ELSE <<"Multiply", l, r>>

makeAdditive(kind, l, r) ==
    IF ZeroConstant(l)
    THEN (IF kind = "Subtract" THEN makeMultiply(<<"Constant", Num(-1)>>, r) ELSE r)
    ELSE IF ZeroConstant(r) THEN l
    ELSE IF Constants(l, r)
    THEN <<"Constant", Scalar(IF kind = "Add" THEN "+" ELSE "-", l[2], r[2])>>
    ELSE <<kind, l, r>>

makeDivide(l, r) ==
    IF OneConstant(r) THEN l
    ELSE IF ZeroConstant(l) THEN <<"Constant", Num(0)>>
    ELSE IF Constants(l, r) THEN <<"Constant", Scalar("/", l[2], r[2])>>
    ELSE <<"Divide", l, r>>

makePower(l, r) ==
    IF OneConstant(r) THEN l
    ELSE IF ZeroConstant(r) THEN <<"Constant", Num(1)>>
    ELSE IF Constants(l, r) THEN <<"Constant", Scalar("^", l[2], r[2])>>
    ELSE <<"Power", l, r>>

RECURSIVE RuleTable(_, _)
\* the derivative by the rule table
RuleTable(e, x) ==
    LET l == e[2]
        r == e[3]
        a == e[2]
    IN  CASE e[1] = "Constant" -> <<"Constant", Num(0)>>
          [] e[1] = "Variable" -> <<"Constant", IF e[2] = x THEN Num(1) ELSE Num(0)>>
          [] e[1] = "Add" -> makeAdditive("Add", RuleTable(l, x), RuleTable(r, x))
          [] e[1] = "Subtract" -> makeAdditive("Subtract", RuleTable(l, x), RuleTable(r, x))
          [] e[1] = "Multiply" ->
                makeAdditive("Add", makeMultiply(RuleTable(l, x), r),
                                    makeMultiply(l, RuleTable(r, x)))
          [] e[1] = "Divide" ->
                makeDivide(makeAdditive("Subtract", makeMultiply(RuleTable(l, x), r),
                                                    makeMultiply(l, RuleTable(r, x))),
                           makePower(r, <<"Constant", Num(2)>>))
          [] e[1] = "Power" ->
                makeMultiply(makePower(l, r),
                             makeAdditive("Add",
                                          makeMultiply(RuleTable(l, x), makeDivide(r, l)),
                                          makeMultiply(RuleTable(r, x), <<"Ln", l>>)))
          [] e[1] = "Sin" -> makeMultiply(<<"Cos", a>>, RuleTable(a, x))
          [] e[1] = "Cos" ->
                makeMultiply(makeMultiply(<<"Constant", Num(-1)>>, <<"Sin", a>>),
                             RuleTable(a, x))
          [] e[1] = "Exp" -> makeMultiply(<<"Exp", a>>, RuleTable(a, x))
          [] e[1] = "Ln" ->
                makeMultiply(makeDivide(<<"Constant", Num(1)>>, a), RuleTable(a, x))

\* the leaf an operand token stands for
LeafOf(token) ==
    IF token \in LiteralTokens THEN <<"Constant", Num(DigitVal(token[1]))>>
    ELSE <<"Variable", token>>

(* C4.  A '-' at the start of the input or right after an operator, before   *)
(* a literal or an identifier, makes the operand                            *)
(* makeMultiply(Constant(-1), operand): "-x" is Multiply(Constant(-1), x)   *)
(* and "2*-x" is Multiply(Constant 2, Multiply(Constant(-1), x)).           *)
(* Violated: the branch hands the empty text to make_expression, which      *)
(* reads the top of an empty stack.                                         *)
C4_UnaryMinusRewritten ==
    pc \in {"parsed", "failed"} =>
        /\ \A o \in LiteralTokens \cup NameTokens :
              text = <<"-">> \o o
                  => expr = Returned(makeMultiply(<<"Constant", Num(-1)>>, LeafOf(o)))
        /\ text = <<"-", "x">>
              => expr = Returned(<<"Multiply", <<"Constant", Num(-1)>>, <<"Variable", X>>>>)
        /\ text = <<"2", "*", "-", "x">>
              => expr = Returned(<<"Multiply", <<"Constant", Num(2)>>,
                                   <<"Multiply", <<"Constant", Num(-1)>>, <<"Variable", X>>>>>>)

\* the rank of a binary operator: '^' over '*' and '/' over '+' and '-'
Rank(o) == IF o = "^" THEN 3 ELSE IF o \in {"*", "/"} THEN 2 ELSE 1

KindOf(o) ==
    CASE o = "+" -> "Add"
      [] o = "-" -> "Subtract"
      [] o = "*" -> "Multiply"
      [] o = "/" -> "Divide"
      [] o = "^" -> "Power"

\* the text is "a o1 b o2 c" with names a, b, c
ThreeNames ==
    /\ Len(text) = 5
    /\ \A k \in {1, 3, 5} : <<text[k]>> \in NameTokens
    /\ \A k \in {2, 4} : <<text[k]>> \in OperatorTokens

Var(k) == <<"Variable", <<text[k]>>>>

(* C5.  The parser honours the priorities: for names a, b, c, "a o1 b o2 c"  *)
(* is o2(o1(a, b), c) when o1 ranks at least as high as o2 and              *)
(* o1(a, o2(b, c)) otherwise; so "a+b*c" is Add(a, Multiply(b, c)),         *)
(* "a*b+c" is Add(Multiply(a, b), c), "a*b^c" is Multiply(a, Power(b, c))   *)
(* and "a-b/c" is Subtract(a, Divide(b, c)).                                *)
C5_PrecedenceHonoured ==
    (pc \in {"parsed", "failed"} /\ ThreeNames) =>
        /\ expr = Returned(IF Rank(text[2]) >= Rank(text[4])
                           THEN <<KindOf(text[4]), <<KindOf(text[2]), Var(1), Var(3)>>, Var(5)>>
                           ELSE <<KindOf(text[2]), Var(1), <<KindOf(text[4]), Var(3), Var(5)>>>>)
        /\ (text[2] = "+" /\ text[4] = "*")
              => Tree = <<"Add", Var(1), <<"Multiply", Var(3), Var(5)>>>>
        /\ (text[2] = "*" /\ text[4] = "+")
              => Tree = <<"Add", <<"Multiply", Var(1), Var(3)>>, Var(5)>>
        /\ (text[2] = "*" /\ text[4] = "^")
              => Tree = <<"Multiply", Var(1), <<"Power", Var(3), Var(5)>>>>
        /\ (text[2] = "-" /\ text[4] = "/")
              => Tree = <<"Subtract", Var(1), <<"Divide", Var(3), Var(5)>>>>

C5_Witness ==
    /\ pc = "parsed"
    /\ text = <<"x", "*", "y", "^", "x">>
    /\ Tree = <<"Multiply", <<"Variable", X>>, <<"Power", <<"Variable", Y>>, <<"Variable", X>>>>>>

(* C6.  Operators of equal priority combine from left to right, '^' too:     *)
(* "a^b^c" is Power(Power(a, b), c), "a-b-c" is Subtract(Subtract(a, b), c) *)
(* and "a/b*c" is Multiply(Divide(a, b), c).                                *)
C6_EqualPriorityLeftToRight ==
    (pc \in {"parsed", "failed"} /\ ThreeNames /\ Rank(text[2]) = Rank(text[4])) =>
        /\ pc = "parsed"
        /\ Tree[1] = KindOf(text[4])
        /\ Tree[2] = <<KindOf(text[2]), Var(1), Var(3)>>
        /\ Tree[3] = Var(5)
        /\ (text[2] = "^" /\ text[4] = "^")
              => Tree = <<"Power", <<"Power", Var(1), Var(3)>>, Var(5)>>
        /\ (text[2] = "-" /\ text[4] = "-")
              => Tree = <<"Subtract", <<"Subtract", Var(1), Var(3)>>, Var(5)>>
        /\ (text[2] = "/" /\ text[4] = "*")
              => Tree = <<"Multiply", <<"Divide", Var(1), Var(3)>>, Var(5)>>

C6_Witness ==
    /\ pc = "parsed"
    /\ text = <<"x", "^", "y", "^", "x">>
    /\ Tree = <<"Power", <<"Power", <<"Variable", X>>, <<"Variable", Y>>>>, <<"Variable", X>>>>

----------------------------------------------------------------------------
Diffed == pc = "diffed"

(* C7.  e.diff(x) is exactly the tree of the rule table, every new binary    *)
(* node going through the smart constructors: Constant(0) for a Constant,   *)
(* Constant(1) or Constant(0) for a Variable, the sum, difference, product, *)
(* quotient and generalized power rules, and cos(a)*da, (-1*sin(a))*da,     *)
(* exp(a)*da, (1/a)*da.  d/dx sin(x) is Function(Cos, x), d/dx exp(x) is    *)
(* Function(Exp, x) and d/dx ln(x) is Divide(Constant 1, x), with no '*1'.  *)
C7_DiffIsRuleTable ==
    Diffed =>
        /\ Tree = RuleTable(src, dvar)
        /\ (src = <<"Sin", <<"Variable", dvar>>>>) => Tree = <<"Cos", <<"Variable", dvar>>>>
        /\ (src = <<"Exp", <<"Variable", dvar>>>>) => Tree = <<"Exp", <<"Variable", dvar>>>>
        /\ (src = <<"Ln", <<"Variable", dvar>>>>)
              => Tree = <<"Divide", <<"Constant", Num(1)>>, <<"Variable", dvar>>>>

C7_Witness ==
    /\ Diffed
    /\ dvar = X
    /\ src = <<"Cos", <<"Multiply", <<"Variable", X>>, <<"Variable", Y>>>>>>
    /\ Tree = <<"Multiply",
                <<"Multiply", <<"Constant", Num(-1)>>,
                              <<"Sin", <<"Multiply", <<"Variable", X>>, <<"Variable", Y>>>>>>>>,
                <<"Variable", Y>>>>

\* the text is "x^c" with the literal c = 2 or c = 3
PowerText == Len(text) = 3 /\ text[1] = "x" /\ text[2] = "^" /\ text[3] \in {"2", "3"}

\* c * v^(c-1)
ClassicalPowerRule(c, v) == Scalar("*", Num(c), PowVal(v, Num(c - 1)))

(* C8.  For every constant exponent c >= 2 and every value v of x,           *)
(* make_expression("x^c").diff("x").eval({x: v}) is c * v^(c-1), at v = 0   *)
(* too.  Violated: the derivative is (x^c)*(c/x), and at v = 0 that is      *)
(* 0 * (c/0) = 0 * inf = NaN, where c * 0^(c-1) is 0.                       *)
C8_PowerRuleAtEveryPoint ==
    (EvaluatedDerivative /\ PowerText /\ dvar = X /\ X \in DOMAIN bindings /\ src[1] = "Power")
        => SameOutcome(val, ClassicalPowerRule(DigitVal(text[3]), bindings[X]))

\* a smart constructor would reduce the binary node
Reducible(node) ==
    LET l == node[2]
        r == node[3]
    IN  \/ Constants(l, r)
        \/ node[1] \in {"Add", "Subtract"} /\ (ZeroConstant(l) \/ ZeroConstant(r))
        \/ node[1] = "Multiply"
              /\ (ZeroConstant(l) \/ ZeroConstant(r) \/ OneConstant(l) \/ OneConstant(r))
        \/ node[1] = "Divide" /\ (OneConstant(r) \/ ZeroConstant(l))
        \/ node[1] = "Power" /\ (ZeroConstant(r) \/ OneConstant(r))

RECURSIVE Simplified(_)
Simplified(node) ==
    CASE node[1] \in {"Constant", "Variable"} -> TRUE
      [] node[1] \in BinaryTypes ->
            ~Reducible(node) /\ Simplified(node[2]) /\ Simplified(node[3])
      [] node[1] \in FunctionTypes -> Simplified(node[2])

(* C9.  The tree e.diff(x) returns is simplified: no binary node with two    *)
(* Constant children, no Add or Subtract with a zero operand, no Multiply   *)
(* with a zero or a one operand, no Divide by one or of zero, no Power to   *)
(* zero or one.                                                             *)
C9_DerivativeSimplified == Diffed => Simplified(Tree)

C9_Witness ==
    /\ Diffed
    /\ dvar = X
    /\ src = <<"Multiply", <<"Variable", X>>, <<"Sin", <<"Variable", X>>>>>>
    /\ Tree = <<"Add", <<"Sin", <<"Variable", X>>>>,
                       <<"Multiply", <<"Variable", X>>, <<"Cos", <<"Variable", X>>>>>>>>

RECURSIVE ConstantsOnly(_)
ConstantsOnly(node) ==
    CASE node[1] = "Constant" -> TRUE
      [] node[1] = "Variable" -> FALSE
      [] node[1] \in BinaryTypes -> ConstantsOnly(node[2]) /\ ConstantsOnly(node[3])
      [] node[1] \in FunctionTypes -> ConstantsOnly(node[2])

PrintedDerivative == pc = "printed" /\ src # None

(* C10, as stated.  The derivative of an expression built from Constants     *)
(* alone serializes to exactly "0".                                         *)
C10_ConstantDerivativePrintsBareZero ==
    (PrintedDerivative /\ ConstantsOnly(src)) => str = <<"0">>

(* C10, amended.  The derivative of an expression built from Constants       *)
(* alone is the single node Constant(0), never a larger zero-valued tree,   *)
(* and serializes as std::to_string prints the value: "0.000000".           *)
C10_ConstantDerivativeIsZeroNode ==
    (PrintedDerivative /\ ConstantsOnly(src)) =>
        /\ Tree = <<"Constant", Num(0)>>
        /\ str = <<"0", ".", "0", "0", "0", "0", "0", "0">>

C10_Witness ==
    /\ PrintedDerivative
    /\ src = <<"Multiply", <<"Sin", <<"Constant", Num(2)>>>>, <<"Constant", Num(2)>>>>
    /\ Tree = <<"Constant", Num(0)>>
    /\ str = <<"0", ".", "0", "0", "0", "0", "0", "0">>

----------------------------------------------------------------------------
(* C11.  make_expression("x * (5 + 2 - 2) * 1 * 0 - 3 * x ^ 2") is the tree  *)
(* Multiply(Constant(-1), Multiply(Constant 3, Power(x, Constant 2))): the  *)
(* left term collapses to the zero constant while parsing and "0 - t"       *)
(* leaves the negated t alone, nothing of the "*1*0" chain remaining.       *)
C11_DemoTextCollapses ==
    (text = DemoText /\ pc # "start") =>
        /\ pc # "failed"
        /\ src = None =>
              Tree = <<"Multiply", <<"Constant", Num(-1)>>,
                       <<"Multiply", <<"Constant", Num(3)>>,
                                     <<"Power", <<"Variable", X>>, <<"Constant", Num(2)>>>>>>>>
        /\ (pc = "printed" /\ src = None) =>
              str = <<"(", "-", "1", ".", "0", "0", "0", "0", "0", "0", "*", "(",
                      "3", ".", "0", "0", "0", "0", "0", "0", "*", "(", "x", "^",
                      "2", ".", "0", "0", "0", "0", "0", "0", ")", ")", ")">>

C11_Witness ==
    /\ text = DemoText
    /\ pc = "printed"
    /\ src = None
    /\ Tree = <<"Multiply", <<"Constant", Num(-1)>>,
                <<"Multiply", <<"Constant", Num(3)>>,
                              <<"Power", <<"Variable", X>>, <<"Constant", Num(2)>>>>>>>>

\* two values are equal within the tolerance of the six printed decimals
WithinTolerance(a, b) ==
    \/ SameOutcome(a, b)
    \/ ~IsThrow(a) /\ ~IsThrow(b) /\ to_string_val(a) = to_string_val(b)

(* C12.  For an Expression e without Variable nodes, negative constants     *)
(* included, make_expression(e.to_string()).eval({}) succeeds and equals    *)
(* e.eval({}).  Violated: "1-2" folds to Constant(-1), which prints as      *)
(* "-1.000000"; its leading '-' takes the unary-minus branch, which reads   *)
(* the top of an empty stack.                                               *)
C12_RoundTrip ==
    (pc = "printed" /\ src = None /\ ConstantsOnly(Tree)) =>
        LET again == make_expression(str)
        IN  /\ IsReturned(again)
            /\ WithinTolerance(eval(again[2], <<>>), eval(Tree, <<>>))

----------------------------------------------------------------------------
\* the text in lower case
Lowered(t) == [k \in DOMAIN t |-> tolower(t[k])]

FunctionNames == {<<"s", "i", "n">>, <<"c", "o", "s">>, <<"e", "x", "p">>, <<"l", "n">>}

\* t[i..j] is a whole run of letters of the text as written
LetterRun(t, i, j) ==
    /\ \A k \in i..j : isalpha(t[k])
    /\ i = 1 \/ ~isalpha(t[i - 1])
    /\ j = Len(t) \/ ~isalpha(t[j + 1])

RECURSIVE NextAfterSpaces(_, _)
\* the first character of t at or after position k that is no space
NextAfterSpaces(t, k) ==
    IF k > Len(t) THEN ""
    ELSE IF t[k] = " " THEN NextAfterSpaces(t, k + 1)
    ELSE t[k]

\* some function name of the text is not followed by '('
FunctionNameWithoutParenthesis(t) ==
    \E i \in 1..Len(t) : \E j \in i..Len(t) :
        /\ LetterRun(t, i, j)
        /\ Lowered(SubSeq(t, i, j)) \in FunctionNames
        /\ NextAfterSpaces(t, j + 1) # "("

Parsed == pc # "start"
Rejected == pc = "failed" /\ IsThrow(expr)

(* C13.  make_expression throws whenever a function name (sin, cos, exp,     *)
(* ln) is not followed by '('; "sin x" throws and gives no Expression.      *)
(* Violated: the spaces are dropped before the letters are read, so         *)
(* "sin x" is the one identifier "sinx" and comes back as a Variable.       *)
C13_FunctionNameNeedsParenthesis ==
    (Parsed /\ FunctionNameWithoutParenthesis(text)) => Rejected

RECURSIVE Balanced(_, _, _)
\* from position k on, with depth parentheses open, every ')' of t closes a
\* '(' and none stays open
Balanced(t, k, depth) ==
    IF k > Len(t) THEN depth = 0
    ELSE IF t[k] = "(" THEN Balanced(t, k + 1, depth + 1)
    ELSE IF t[k] = ")" THEN depth > 0 /\ Balanced(t, k + 1, depth - 1)
    ELSE Balanced(t, k + 1, depth)

(* C14.  make_expression throws when the parentheses of the input are not    *)
(* balanced: a ')' without its '(', a '(' still open at the end, a function *)
(* argument without its closing ')'; it pops no empty stack and returns no  *)
(* Expression.  Violated: ")" pops the empty operator stack, "(x" reads the *)
(* top of an empty value stack in the final drain, and "sin(x" returns      *)
(* Sin(x).                                                                  *)
C14_UnbalancedParenthesesRejected ==
    (Parsed /\ ~Balanced(text, 1, 0)) => Rejected

\* a binary operator other than '-' stands first in the text or right after
\* another operator, spaces apart
MisplacedOperator(t) ==
    LET s == Preprocess(t)
    IN  \E k \in 1..Len(s) :
            /\ is_operator(s[k])
            /\ s[k] # "-"
            /\ k = 1 \/ is_operator(s[k - 1])

(* C15.  make_expression throws, and returns no Expression, when a binary    *)
(* operator other than '-' stands at the start of the input or right after  *)
(* another operator ("+*3", "2+*3", "*x").  Violated: in "-*3" the '*'      *)
(* follows the operator '-', but the leading '-' is taken first, as a unary *)
(* minus, and that branch reads the top of an empty stack.                  *)
C15_MisplacedOperatorRejected ==
    (Parsed /\ MisplacedOperator(text)) => Rejected

----------------------------------------------------------------------------
RECURSIVE DividesByZero(_, _)
\* some Divide node of the tree has a right operand that evaluates to zero
DividesByZero(node, b) ==
    CASE node[1] \in {"Constant", "Variable"} -> FALSE
      [] node[1] \in BinaryTypes ->
            \/ node[1] = "Divide" /\ IsZeroVal(eval(node[3], b))
            \/ DividesByZero(node[2], b)
            \/ DividesByZero(node[3], b)
      [] node[1] \in FunctionTypes -> DividesByZero(node[2], b)

(* C18.  eval of a tree with a Divide node whose right operand evaluates to  *)
(* zero under the bindings fails with a domain error for that call instead  *)
(* of returning a value.  Violated: "1/x" with x = 0 returns inf; nothing   *)
(* in eval throws for a division.                                           *)
C18_DivisionByZeroFails ==
    (pc = "evaluated" /\ DividesByZero(Tree, bindings)) => IsThrow(val)

----------------------------------------------------------------------------
JustParsed == pc \in {"parsed", "failed"}

LowerCase(name) == \A k \in DOMAIN name : name[k] \in Range(LowerChars)

(* C19.  Parsing ignores the case of letters: a text and its lower-case      *)
(* form, hence any two texts that differ in case only, parse to the same    *)
(* tree; a function name is recognized in any case ("SIN(x)" is a Sin       *)
(* node); every Variable of a parsed tree carries a lower-case name.        *)
C19_CaseInsensitive ==
    JustParsed =>
        LET lower == make_expression(Lowered(text))
        IN  /\ make_expression(text) = lower
            /\ ~IsUndefined(lower) => expr = lower
            /\ (pc = "parsed" /\ ~IsUndefined(lower))
                  => \A name \in VariableNames(Tree) : LowerCase(name)
            /\ text = <<"S", "I", "N", "(", "x", ")">>
                  => expr = Returned(<<"Sin", <<"Variable", X>>>>)

C19_Witness ==
    /\ pc = "parsed"
    /\ text = <<"S", "I", "N", "(", "X", ")">>
    /\ Tree = <<"Sin", <<"Variable", X>>>>

----------------------------------------------------------------------------
\* what the ordered rule list of the smart constructor of a node type gives
RuleList(type, l, r) ==
    CASE type \in {"Add", "Subtract"} -> makeAdditive(type, l, r)
      [] type = "Multiply" -> makeMultiply(l, r)
      [] type = "Divide" -> makeDivide(l, r)
      [] type = "Power" -> makePower(l, r)

Made == pc = "made"

RECURSIVE SameTree(_, _)
\* the same tree, a Constant being the same as another when operator== of
\* the numeric domain says so (-0 and +0 are one constant), or both are NaN
SameTree(a, b) ==
    /\ a[1] = b[1]
    /\ CASE a[1] = "Constant" -> SameOutcome(a[2], b[2])
         [] a[1] = "Variable" -> a[2] = b[2]
         [] a[1] \in BinaryTypes -> SameTree(a[2], b[2]) /\ SameTree(a[3], b[3])
         [] a[1] \in FunctionTypes -> SameTree(a[2], b[2])

----------------------------------------------------------------------------
\* the root the last statement stored
Result == regs[call[2]]

\* the two roots reach no common node object
Disjoint(a, b) == Nodes(a) \cap Nodes(b) = {}

(* C16.  After any sequence of constructions, copies, combinators, function  *)
(* calls and diff calls no node is reachable from the roots of two live     *)
(* Expression values; the tree of e.diff(x) shares no node with e, a Power  *)
(* with an exponent in x included.  Violated: for e = x ^ x the Ln node of  *)
(* the derivative holds e's own left child.                                 *)
C16_NoNodeInTwoExpressions ==
    pc = "owned" =>
        /\ (Live(1) /\ Live(2)) => Disjoint(regs[1], regs[2])
        /\ (call[1] = "diff" /\ call[2] \in Slots) => Disjoint(Result, call[3])

(* C17.  The Expression a copy, a binary combinator or sin/cos/exp/ln        *)
(* produces shares no node with its operands, also for x op x and when the  *)
(* simplification returns an operand as it is (x*1, x+0, x/1, x^1); a copy  *)
(* has the tree of its source.                                              *)
C17_ResultOwnsItsNodes ==
    (pc = "owned" /\ call[1] \in {"copy"} \cup BinaryTypes \cup FunctionTypes) =>
        /\ Disjoint(Result, call[3])
        /\ Disjoint(Result, call[4])
        /\ call[1] = "copy" => Shape(Result) = Shape(call[3])

C17_Witness ==
    /\ pc = "owned"
    /\ call[1] = "Multiply"
    /\ Shape(call[3]) = <<"Variable", X>>
    /\ Shape(call[4]) = <<"Constant", Num(1)>>
    /\ Shape(Result) = <<"Variable", X>>
    /\ Id(Result) # Id(call[3])

----------------------------------------------------------------------------
(* C21.  Dividing by the zero constant is left to eval: for every left       *)
(* operand l, a Constant included, l / Constant(0) builds the node          *)
(* Divide(l, Constant(0)) without dividing anything, and eval of that tree  *)
(* fails with a domain error under every binding.  Violated:                *)
(* Constant(2) / Constant(0) is folded into Constant(inf) while the tree is *)
(* built, Constant(0) / Constant(0) becomes Constant(0), and eval of        *)
(* Divide(x, Constant(0)) returns inf or NaN.                               *)
C21_DivisionByZeroDeferred ==
    (Made /\ call[1] = "Divide" /\ is_zero(call[3])) =>
        /\ Tree = make("Divide", call[2], call[3])
        /\ \A b \in Bindings : IsThrow(eval(Tree, b))

----------------------------------------------------------------------------
\* two evals end alike: both fail, or both return the same value
SameEval(a, b) ==
    IF IsThrow(a) \/ IsThrow(b) THEN IsThrow(a) /\ IsThrow(b) ELSE SameOutcome(a, b)

(* C22.  For each of the five combinators, all operands l, r and every       *)
(* binding, eval of the simplified result ends as eval of the plain node    *)
(* BinaryOp(kind, l, r) does: with the same value, or with an error in      *)
(* both.  Violated: Constant(0) * x is Constant(0), which evaluates to 0    *)
(* with x unbound, where Multiply(Constant(0), x) fails for the unbound x.  *)
C22_SimplifiedEvaluatesAsRaw ==
    Made =>
        \A b \in Bindings :
            SameEval(eval(Tree, b), eval(make(call[1], call[2], call[3]), b))

----------------------------------------------------------------------------
(* C23.  For every text, make_expression never calls top() or pop() on an    *)
(* empty operand stack or operator stack: the call returns an Expression or *)
(* throws.  Violated: for "3+" the final drain pops '+' and reads two       *)
(* operands from a stack that holds one; for ")" the ')' branch pops the    *)
(* empty operator stack; for "(-x)" the unary minus parses the empty text.  *)
C23_NoEmptyStackAccess ==
    JustParsed => ~IsUndefined(make_expression(text))

----------------------------------------------------------------------------
\* the text starts an operand at index k: a digit, a letter or a '('
StartsOperand(s, k) == isdigit(At(s, k)) \/ isalpha(At(s, k)) \/ At(s, k) = "("

\* two operands stand side by side with no operator between them: a number
\* or a ')' is followed by the start of an operand, or a name that is no
\* function name is followed by a digit or a '('
AdjacentOperands(t) ==
    LET s == Preprocess(t)
    IN  \E k \in 1..(Len(s) - 1) :
            \/ /\ isdigit(At(s, k - 1)) \/ At(s, k - 1) = "." \/ At(s, k - 1) = ")"
               /\ ~isdigit(At(s, k))
               /\ StartsOperand(s, k)
            \/ /\ isalpha(At(s, k - 1))
               /\ isdigit(At(s, k)) \/ At(s, k) = "("
               /\ \A i \in 0..(k - 1) :
                      (EndOfToken(s, i) = k /\ (i = 0 \/ ~isalpha(At(s, i - 1))))
                          => FunctionOf(SubSeq(s, i + 1, k)) = ""

(* C24.  When make_expression returns, the operand stack holds exactly one   *)
(* Expression (and the operator stack none), so no operand of the text is   *)
(* left behind; a text with two operands side by side and no operator       *)
(* between them ("3x", "x(x)", "3(3)") does not return a tree.  Violated:    *)
(* "3x" returns Variable x with Constant 3 still on the operand stack.      *)
C24_ReturnLeavesOneOperand ==
    JustParsed =>
        LET r == make_expression_stacks(text)
        IN  /\ IsReturned(r) => r[3] = 1
            /\ AdjacentOperands(text) => ~IsReturned(r)

----------------------------------------------------------------------------
\* the characters a text is made of: digits, '.', letters, the five
\* operators, parentheses and spaces
InAlphabet(c) ==
    isdigit(c) \/ c = "." \/ isalpha(c) \/ is_operator(c) \/ c = "(" \/ c = ")" \/ c = " "

\* the text holds a character outside the alphabet, or a '.' that does not
\* follow a digit
HasStrayCharacter(t) ==
    \E k \in 1..Len(t) :
        \/ ~InAlphabet(t[k])
        \/ t[k] = "." /\ (k = 1 \/ ~isdigit(t[k - 1]))

(* C25.  A text with a character that is no digit, '.', letter, operator,    *)
(* parenthesis or space ('#', ','), or with a '.' that does not follow a    *)
(* digit, fails with a parse error; the character is never skipped.         *)
(* Violated: "3#" returns Constant 3 and ".3" returns Constant 3, the scan  *)
(* loop having no branch for such a character.                              *)
C25_StrayCharacterRejected ==
    (JustParsed /\ HasStrayCharacter(text)) => IsThrow(expr)

----------------------------------------------------------------------------
RECURSIVE Points(_)
\* the number of '.' in a run of characters
Points(cs) ==
    IF cs = <<>> THEN 0 ELSE (IF Head(cs) = "." THEN 1 ELSE 0) + Points(Tail(cs))

\* some numeric token of the text, a run of digits and '.' that starts with
\* a digit, holds two or more decimal points
HasManyPoints(t) ==
    LET s == Preprocess(t)
    IN  \E i \in 0..(Len(s) - 1) :
            /\ isdigit(At(s, i))
            /\ i = 0 \/ ~(isdigit(At(s, i - 1)) \/ At(s, i - 1) = ".")
            /\ Points(SubSeq(s, i + 1, EndOfNumber(s, i))) >= 2

(* C26.  A numeric literal is digits with at most one decimal point: a text  *)
(* with a numeric token of two or more decimal points ("1.2.3") fails with  *)
(* a parse error; no part of the token is ignored.  Violated: "1.2.3" is    *)
(* accepted as Constant 1.2, std::stold reading the longest valid prefix.   *)
C26_ManyPointsRejected ==
    (JustParsed /\ HasManyPoints(text)) => IsThrow(expr)

----------------------------------------------------------------------------
\* how many of the characters s[a..b] are c
Count(s, a, b, c) == Cardinality({k \in a..b : s[k] = c})

\* the ')' at position m closes the '(' at position open: from open to m
\* there are as many '(' as ')', and more '(' than ')' up to any earlier place
Matches(s, open, m) ==
    /\ m > open
    /\ s[m] = ")"
    /\ Count(s, open, m, "(") = Count(s, open, m, ")")
    /\ \A k \in open..(m - 1) : Count(s, open, k, "(") > Count(s, open, k, ")")

\* a function name starts at index i of s, as a whole run of letters, and a
\* '(' follows it
CallAt(s, i) ==
    /\ isalpha(At(s, i))
    /\ i = 0 \/ ~isalpha(At(s, i - 1))
    /\ FunctionOf(SubSeq(s, i + 1, EndOfToken(s, i))) # ""
    /\ At(s, EndOfToken(s, i)) = "("

RECURSIVE Subst(_, _, _)
\* the tree with every Variable of the given name replaced by a tree
Subst(node, name, by) ==
    CASE node[1] = "Constant" -> node
      [] node[1] = "Variable" -> IF node[2] = name THEN by ELSE node
      [] node[1] \in BinaryTypes ->
            <<node[1], Subst(node[2], name, by), Subst(node[3], name, by)>>
      [] node[1] \in FunctionTypes -> <<node[1], Subst(node[2], name, by)>>

\* a name that no text holds, in parentheses
Placeholder == <<"(", "u", ")">>

(* C27.  For a function call whose '(' has a matching ')' in the string that *)
(* make_expression scans, the argument parsed recursively is exactly the    *)
(* text between the two, parentheses inside it included, and the scan goes  *)
(* on at the character after the matching ')': a text that starts with a    *)
(* call parses as the text with "(u)" in place of the call does, with the   *)
(* function node of the parsed argument in the place of u.                  *)
C27_ArgumentIsTextBetweenParentheses ==
    JustParsed =>
        \A s \in {Preprocess(text)} :
            \A i \in {k \in 0..(Len(s) - 1) : CallAt(s, k)} :
                \A j \in {EndOfToken(s, i)} :
                    \A m \in {k \in 1..Len(s) : Matches(s, j + 1, k)} :
                        \A arg \in {SubSeq(s, j + 2, m - 1)} :
                            /\ ScanArgument(s, j + 1, 1, <<>>) = <<m, arg>>
                            /\ \A inner \in {make_expression(arg)} :
                                  (i = 0 /\ IsReturned(inner)) =>
                                      \A outer \in {make_expression(Placeholder
                                                                     \o SubSeq(s, m + 1, Len(s)))} :
                                          make_expression(s) =
                                              IF IsReturned(outer)
                                              THEN Returned(Subst(outer[2], <<"u">>,
                                                        FunctionNode(FunctionOf(SubSeq(s, 1, j)),
                                                                     inner[2])))
                                              ELSE outer

C27_Witness ==
    /\ pc = "parsed"
    /\ text = CallText
    /\ Tree = <<"Add", <<"Sin", <<"Multiply", <<"Add", <<"Variable", X>>,
                                                       <<"Constant", Num(1)>>>>,
                                         <<"Constant", Num(2)>>>>>>,
                       <<"Variable", Y>>>>

----------------------------------------------------------------------------
RECURSIVE NonNegativeConstants(_)
\* every Constant of the tree is a number that is not negative
NonNegativeConstants(node) ==
    CASE node[1] = "Constant" -> ~IsNaN(node[2]) /\ ~Negative(node[2])
      [] node[1] = "Variable" -> TRUE
      [] node[1] \in BinaryTypes ->
            NonNegativeConstants(node[2]) /\ NonNegativeConstants(node[3])
      [] node[1] \in FunctionTypes -> NonNegativeConstants(node[2])

RECURSIVE SameStructure(_, _)
\* the same nodes in the same places, a Constant being the same as another
\* within the six decimals of its text
SameStructure(a, b) ==
    /\ a[1] = b[1]
    /\ CASE a[1] = "Constant" -> WithinTolerance(a[2], b[2])
         [] a[1] = "Variable" -> a[2] = b[2]
         [] a[1] \in BinaryTypes -> SameStructure(a[2], b[2]) /\ SameStructure(a[3], b[3])
         [] a[1] \in FunctionTypes -> SameStructure(a[2], b[2])

(* C28.  to_string is fully parenthesized and parses back to the same tree: *)
(* for every tree e that make_expression returned and whose Constants are   *)
(* not negative, make_expression(e.to_string()) returns a tree with the     *)
(* nodes of e in the same nesting.  Violated: "x+0.0000001" is              *)
(* Add(x, Constant 1e-7), printed as "(x+0.000000)", which parses back to   *)
(* Variable x; "2/0" is Constant(inf), printed as "inf", which parses back  *)
(* to a Variable named inf.                                                 *)
C28_ToStringParsesBack ==
    (pc = "printed" /\ src = None /\ NonNegativeConstants(Tree)) =>
        LET again == make_expression(str)
        IN  /\ IsReturned(again)
            /\ SameStructure(again[2], Tree)

----------------------------------------------------------------------------
(* C29.  For every tree e, with other variables and functions in it, and     *)
(* every name x that is no Variable of e, e.diff(x) is the one node         *)
(* Constant(0), whichever of the five binary operators and four functions   *)
(* e is built from.                                                         *)
C29_DiffByAbsentNameIsZeroNode ==
    (pc = "diffed" /\ dvar \notin VariableNames(src)) => Tree = ConstNode(Num(0))

C29_Witness ==
    /\ pc = "diffed"
    /\ dvar = X
    /\ src = <<"Power", <<"Variable", Y>>, <<"Sin", <<"Variable", Y>>>>>>
    /\ Tree = <<"Constant", Num(0)>>

----------------------------------------------------------------------------
\* the names of the text as the caller wrote them: its whole runs of
\* letters that are no function name in any case
SpelledNames(t) ==
    {SubSeq(t, i, j) : i \in 1..Len(t), j \in 1..Len(t)}
        \cap {n \in {SubSeq(t, i, j) : i \in 1..Len(t), j \in 1..Len(t)} :
                 \E i \in 1..Len(t) :
                     /\ i + Len(n) - 1 <= Len(t)
                     /\ n # <<>>
                     /\ SubSeq(t, i, i + Len(n) - 1) = n
                     /\ LetterRun(t, i, i + Len(n) - 1)
                     /\ Lowered(n) \notin FunctionNames}

\* the caller's bindings under the names the parser gave the variables
Folded(b) == [n \in {Lowered(m) : m \in DOMAIN b} |->
                 b[CHOOSE m \in DOMAIN b : Lowered(m) = n]]

\* the run evaluated or differentiated a parsed text
Ran(type) ==
    pc = "exited" /\ call[1] = type /\ expr # None /\ IsReturned(make_expression(text))

(* C30.  A name the caller supplies is matched as the parser folds it: for   *)
(* every text and every variable spelled N in it, in any case, eval with N  *)
(* bound to v takes v for that variable, and diff(N) differentiates with    *)
(* respect to it, on the paths --eval <expr> N=v and --diff <expr> --by N.  *)
(* Violated: --eval "X" X=2 fails with X unbound, the tree holding the      *)
(* variable x; --diff "X" --by X gives 0.                                   *)
C30_CallerNamesFolded ==
    /\ (/\ Ran("--eval")
        /\ DOMAIN bindings \subseteq SpelledNames(text)
        /\ \A m, n \in DOMAIN bindings : Lowered(m) = Lowered(n) => m = n)
          => val = eval(Tree, Folded(bindings))
    /\ (Ran("--diff") /\ dvar \in SpelledNames(text))
          => Tree = diff(src, Lowered(dvar))

====
